---- MODULE Spec2Model ----
(***************************************************************************)
(* Transaction construction in the transaction Controller of cryptum-sdk.  *)
(* One construction call is modelled at a time.  JavaScript runs a call    *)
(* synchronously up to the next await on a remote request, so every action *)
(* below is the synchronous code between two remote-call boundaries.       *)
(***************************************************************************)
EXTENDS Integers, Sequences, FiniteSets

(* ---------------------------- bounds ----------------------------------- *)
MaxFee == 2
MaxNonce == 1
MaxAmount == 2
MaxUtxos == 3
MaxOutputs == 2
MaxInputs == 2
MaxPayloads == 2

VARIABLES
  op,           \* the constructor that was called
  input,        \* the caller's intent
  pc,           \* the await the call is suspended at, or "done" / "failed"
  sent,         \* remote requests issued so far, in order
  promise,      \* state of the promise of each remote request
  info,         \* getWalletInfo response (Uniswap: createPool response), <<>>
                \* before it arrived
  quote,        \* getFee response, <<>> before it arrived
  builderCalls, \* arguments of every invocation of a protocol builder
  result,       \* what the call returned or threw
  discovered,   \* Hathor: outputs returned by getUTXOs, in discovery order
  utxos,        \* Hathor: discovered outputs, after filtering
  i,            \* Hathor: loop index (1-based)
  inputs,       \* Hathor: selected inputs
  inputSum,     \* Hathor: running sum of the selected ordinary outputs
  outputs,      \* Hathor: requested outputs of a transfer
  tokens,       \* Hathor: token list derived from the outputs
  txs,          \* Hathor: the output each explicit input names in its resolved
                \* transaction (<<>> when the index is not in the output list)
  keyAddressMapper, \* Cardano: the key pair held for each address
  inputList,    \* Cardano: the discovered outputs matched to the explicit inputs
  waiting,      \* Cardano: explicit inputs whose getUTXOs has not answered
  payload,      \* Cardano: the response of the payload request
  config,       \* the controller's only field (this.config)
  calls         \* two calls in flight on one controller: the locals of each

vars == <<op, input, pc, sent, promise, info, quote, builderCalls, result,
          discovered, utxos, i, inputs, inputSum, outputs, tokens, txs,
          keyAddressMapper, inputList, waiting, payload, config, calls>>

controllerVars == <<config, calls>>

cardanoVars == <<keyAddressMapper, inputList, waiting, payload>>

hathorVars == <<discovered, utxos, i, inputs, inputSum, outputs, tokens, txs>>

\* this.config, as far as the constructors read it
Configs == [environment : {"development", "production"}]

DefaultConfig == [environment |-> "development"]

(* ----------------------- JavaScript values ----------------------------- *)
\* An optional value is <<>> (undefined / null) or <<v>>.
None == <<>>
Some(v) == <<v>>
Opt(S) == {None} \cup {Some(v) : v \in S}

\* JavaScript truthiness of an optional number: undefined, null and 0 are falsy.
Truthy(o) == o # None /\ o[1] # 0

Requests == {"getWalletInfo", "getFee", "getUTXOs", "getTransactionByHash",
             "preprocess", "getMetadata", "getPayload", "combineSignatures",
             "createPool", "sendTransaction", "getBlock"}

\* a remote request as it is issued
Request(name) == [req |-> name]

\* getTransactionByHash({ hash, protocol })
Lookup(hash) == [req |-> "getTransactionByHash", hash |-> hash]

NoPromises == [r \in Requests |-> "none"]

Pending == [status |-> "pending"]

Rejected(e) == [status |-> "rejected", error |-> e]

\* new SignedTransaction({ signedTx, protocol, type })
SignedTransaction(protocol, type) ==
  [status |-> "fulfilled", protocol |-> protocol, type |-> type]

\* services.handleRequestError: a failed remote request is rethrown to the caller.
handleRequestError == Rejected("RemoteRequestError")

(* ------------------------ account / ledger chains ---------------------- *)
TransferOps == {"createCeloTransferTransaction", "createEthereumTransferTransaction",
                "createBscTransferTransaction", "createAvaxCChainTransferTransaction"}

ContractOps == {"createSmartContractTransaction", "createSmartContractDeployTransaction",
                "createTokenDeployTransaction"}

\* the constructors that resolve chain state and fee through _getFeeInfo
AccountOps == TransferOps \cup ContractOps

\* the Stellar / Ripple constructors
LedgerOps == {"createStellarTrustlineTransaction", "createRippleTrustlineTransaction",
              "createStellarTransferTransaction", "createRippleTransferTransaction"}

FeeOps == AccountOps \cup LedgerOps

BuilderProtocols == {"CELO", "ETHEREUM", "BSC", "AVAXCCHAIN"}

Protocols == BuilderProtocols \cup {"SOLANA"}

ProtocolOf(o, in) ==
  CASE o = "createCeloTransferTransaction" -> "CELO"
    [] o = "createEthereumTransferTransaction" -> "ETHEREUM"
    [] o = "createBscTransferTransaction" -> "BSC"
    [] o = "createAvaxCChainTransferTransaction" -> "AVAXCCHAIN"
    [] o \in {"createStellarTrustlineTransaction", "createStellarTransferTransaction"} -> "STELLAR"
    [] o \in {"createRippleTrustlineTransaction", "createRippleTransferTransaction"} -> "RIPPLE"
    [] OTHER -> in.protocol

TypeOf(o, in) ==
  CASE o \in TransferOps -> "TRANSFER"
    [] o \in {"createHathorTokenTransactionFromWallet",
               "createHathorTokenTransactionFromUTXO"} -> in.type
    [] o = "createSmartContractTransaction" -> "CALL_CONTRACT_METHOD"
    [] o \in {"createSmartContractDeployTransaction", "createTokenDeployTransaction"} -> "DEPLOY_CONTRACT"
    [] o \in {"createStellarTrustlineTransaction", "createRippleTrustlineTransaction"} -> "CHANGE_TRUST"
    [] OTHER -> "TRANSFER"

\* caller-supplied fee override of an account-chain intent: absent, or an
\* object whose gas and gasPrice may each be absent
FeeOverrides == Opt([gas : Opt(0..MaxFee), gasPrice : Opt(0..MaxFee)])

\* FeeResponse of an account chain
FeeQuotes == [gas : 1..MaxFee, gasPrice : 1..MaxFee, chainId : {1}]

\* flat fee of a ledger-sequence chain
FlatFees == Opt(0..MaxFee)

\* amounts are decimal strings, as in the intent
Amounts == {"0.1", "1"}

\* services/blockchain/utils.toWei(amount).toString(): the amount in wei
toWei(amount) ==
  CASE amount = "0.1" -> "100000000000000000"
    [] amount = "1" -> "1000000000000000000"

\* services/blockchain/utils.getTokenAddress: the well-known contract
\* address of a Celo token
getTokenAddress(protocol, tokenSymbol) ==
  CASE tokenSymbol = "CELO" -> "0xCELO-token"
    [] tokenSymbol = "cUSD" -> "0xcUSD-token"
    [] tokenSymbol = "cEUR" -> "0xcEUR-token"

TokenSymbols == {"CELO", "cUSD", "cEUR", "MTK"}

\* the intent of createCeloTransferTransaction, line 389
CeloTransferInputs ==
  [fee : FeeOverrides, tokenSymbol : TokenSymbols, amount : Amounts,
   destination : {"0xdestination"}, memo : Opt({"create-transfer"}),
   contractAddress : Opt({"0xcaller-supplied"})]

AccountInputs(o) ==
  IF o = "createCeloTransferTransaction" THEN CeloTransferInputs
  ELSE IF o \in ContractOps THEN [fee : FeeOverrides, protocol : Protocols]
  ELSE [fee : FeeOverrides]

\* JavaScript truthiness of an optional string: undefined, null and '' are falsy
TruthyString(o) == o # None /\ o[1] # ""

\* lines 392-410 and 420-433: the fee-quote request of a Celo transfer
CeloFeeShapeMemoIgnored(in) ==
  LET amountWei == toWei(in.amount)
  IN IF in.tokenSymbol = "CELO"
     THEN [type |-> "TRANSFER", method |-> None, params |-> None,
           amount |-> Some(in.amount), contractAddress |-> None, contractAbi |-> None]
     ELSE [type |-> "CALL_CONTRACT_METHOD", method |-> Some("transfer"),
           params |-> Some(<<in.destination, amountWei>>),
           amount |-> None,
           contractAddress |-> IF in.tokenSymbol \in {"cUSD", "cEUR"}
                               THEN Some(getTokenAddress("CELO", in.tokenSymbol))
                               ELSE in.contractAddress,
           contractAbi |-> Some("TRANSFER_METHOD_ABI")]

CeloFeeShape(in) ==
  LET amountWei == toWei(in.amount)
      memo == TruthyString(in.memo)
  IN IF in.tokenSymbol = "CELO"
     THEN [type |-> IF memo THEN "CALL_CONTRACT_METHOD" ELSE "TRANSFER",
           method |-> IF memo THEN Some("transferWithComment") ELSE None,
           params |-> IF memo THEN Some(<<in.destination, amountWei, in.memo[1]>>) ELSE None,
           amount |-> IF memo THEN None ELSE Some(in.amount),
           contractAddress |-> IF memo THEN Some(getTokenAddress("CELO", in.tokenSymbol))
                               ELSE None,
           contractAbi |-> IF memo THEN Some("TRANSFER_COMMENT_METHOD_ABI") ELSE None]
     ELSE [type |-> "CALL_CONTRACT_METHOD",
           method |-> IF memo THEN Some("transferWithComment") ELSE Some("transfer"),
           params |-> IF memo THEN Some(<<in.destination, amountWei, in.memo[1]>>)
                      ELSE Some(<<in.destination, amountWei>>),
           amount |-> None,
           contractAddress |-> IF in.tokenSymbol \in {"cUSD", "cEUR"}
                               THEN Some(getTokenAddress("CELO", in.tokenSymbol))
                               ELSE in.contractAddress,
           contractAbi |-> IF memo THEN Some("TRANSFER_COMMENT_METHOD_ABI")
                           ELSE Some("TRANSFER_METHOD_ABI")]

\* the getFee request as _getFeeInfo issues it (lines 690-704): a Celo
\* transfer passes on the shape resolved above
FeeRequest(o, in) ==
  IF o = "createCeloTransferTransaction"
  THEN [req |-> "getFee", data |-> CeloFeeShape(in)]
  ELSE Request("getFee")

LedgerInputs == [fee : FlatFees]

WalletInfos(o) ==
  IF o \in AccountOps THEN [nonce : 0..MaxNonce]
  ELSE [sequence : 0..MaxNonce, ledgerCurrentIndex : 0..MaxNonce]

\* Promise.all over [getWalletInfo, getFee]: rejects as soon as one rejects,
\* fulfils once both are fulfilled
PromiseAllLate(a, b) ==
  IF a = "fulfilled" /\ b = "fulfilled" THEN "fulfilled"
  ELSE IF a \in {"fulfilled", "rejected"} /\ b \in {"fulfilled", "rejected"} THEN "rejected"
  ELSE "pending"

PromiseAll(a, b) ==
  IF a = "rejected" \/ b = "rejected" THEN "rejected"
  ELSE IF a = "fulfilled" /\ b = "fulfilled" THEN "fulfilled"
  ELSE "pending"

\* lines 706-707: a truthy override field replaces the resolved field
MergeFeeWholesale(fee, networkFee) ==
  IF fee = None THEN networkFee
  ELSE [networkFee EXCEPT
          !.gas = IF fee[1].gas # None THEN fee[1].gas[1] ELSE 0,
          !.gasPrice = IF fee[1].gasPrice # None THEN fee[1].gasPrice[1] ELSE 0]

MergeFee(fee, networkFee) ==
  [networkFee EXCEPT
     !.gas = IF fee # None /\ Truthy(fee[1].gas) THEN fee[1].gas[1] ELSE @,
     !.gasPrice = IF fee # None /\ Truthy(fee[1].gasPrice) THEN fee[1].gasPrice[1] ELSE @]

(* --------------- _getFeeInfo and the Stellar / Ripple path ------------- *)
InitFee ==
  /\ op \in FeeOps
  /\ input \in (IF op \in AccountOps THEN AccountInputs(op) ELSE LedgerInputs)
  /\ pc = "start"
  /\ sent = <<>>
  /\ promise = NoPromises
  /\ info = None
  /\ quote = None
  /\ builderCalls = <<>>
  /\ result = Pending
  /\ discovered = <<>> /\ utxos = <<>> /\ i = 0 /\ inputs = <<>> /\ inputSum = 0
  /\ outputs = <<>> /\ tokens = <<>> /\ txs = <<>>
  /\ keyAddressMapper = <<>> /\ inputList = <<>> /\ waiting = {} /\ payload = <<>>
  /\ config = DefaultConfig /\ calls = <<>>

\* the call throws: no envelope is returned
Throw(e) ==
  /\ pc' = "failed"
  /\ result' = e

\* the protocol builder / signer is invoked with args and awaited
InvokeBuilder(args) ==
  /\ builderCalls' = Append(builderCalls, args)
  /\ pc' = "awaitBuilder"
  /\ result' = result

\* _getFeeInfo, lines 685-705: both requests are issued before the await
\* on Promise.all suspends the call
getFeeInfoCall ==
  /\ op \in AccountOps
  /\ pc = "start"
  /\ sent' = sent \o <<Request("getWalletInfo"), FeeRequest(op, input)>>
  /\ promise' = [promise EXCEPT !["getWalletInfo"] = "pending", !["getFee"] = "pending"]
  /\ pc' = "awaitFeeInfo"
  /\ UNCHANGED <<op, input, info, quote, builderCalls, result>>
  /\ UNCHANGED cardanoVars
  /\ UNCHANGED hathorVars
  /\ UNCHANGED controllerVars

\* lines 706-708 and the caller's code after `await this._getFeeInfo(...)`:
\* merge the override, then dispatch to the builder of the protocol
AfterFeeInfo(infoV, feeV) ==
  LET networkFee == MergeFee(input.fee, feeV)
      protocol == ProtocolOf(op, input)
  IN IF op \in ContractOps /\ protocol \notin BuilderProtocols
     THEN /\ Throw(Rejected("InvalidTypeException"))
          /\ UNCHANGED builderCalls
     ELSE InvokeBuilder([fee |-> networkFee, nonce |-> infoV.nonce, protocol |-> protocol])

\* Stellar / Ripple, e.g. lines 317-320: only the chain state is requested
ledgerCall ==
  /\ op \in LedgerOps
  /\ pc = "start"
  /\ sent' = Append(sent, Request("getWalletInfo"))
  /\ promise' = [promise EXCEPT !["getWalletInfo"] = "pending"]
  /\ pc' = "awaitInfo"
  /\ UNCHANGED <<op, input, info, quote, builderCalls, result>>
  /\ UNCHANGED cardanoVars
  /\ UNCHANGED hathorVars
  /\ UNCHANGED controllerVars

\* lines 329-341 / 366-378: Ripple also bounds the validity window
BuildLedger(fee, infoV) ==
  InvokeBuilder([fee |-> fee, sequence |-> infoV.sequence,
                 maxLedgerVersion |-> IF ProtocolOf(op, input) = "RIPPLE"
                                      THEN Some(infoV.ledgerCurrentIndex + 10) ELSE None,
                 protocol |-> ProtocolOf(op, input)])

\* getWalletInfo answers; the code after the await that waited for it runs
getWalletInfoFulfilled ==
  /\ promise["getWalletInfo"] = "pending"
  /\ \E infoV \in WalletInfos(op) :
       /\ info' = Some(infoV)
       /\ IF pc = "awaitInfo" /\ ~Truthy(input.fee)
          THEN \* lines 321-328: the fee is requested only now, and only when
               \* the caller gave none
               /\ sent' = Append(sent, Request("getFee"))
               /\ promise' = [promise EXCEPT !["getWalletInfo"] = "fulfilled",
                                             !["getFee"] = "pending"]
               /\ pc' = "awaitFee"
               /\ UNCHANGED <<result, builderCalls>>
          ELSE /\ promise' = [promise EXCEPT !["getWalletInfo"] = "fulfilled"]
               /\ UNCHANGED sent
               /\ CASE pc = "awaitInfo" -> BuildLedger(input.fee[1], infoV)
                    [] pc = "awaitFeeInfo"
                       /\ PromiseAll("fulfilled", promise["getFee"]) = "fulfilled" ->
                         AfterFeeInfo(infoV, quote[1])
                    [] OTHER -> UNCHANGED <<pc, result, builderCalls>>
  /\ UNCHANGED <<op, input, quote>>
  /\ UNCHANGED cardanoVars
  /\ UNCHANGED hathorVars
  /\ UNCHANGED controllerVars

\* a remote request fails: handleRequestError rethrows, the await of the
\* caller (or Promise.all) rejects
getWalletInfoRejected ==
  /\ promise["getWalletInfo"] = "pending"
  /\ promise' = [promise EXCEPT !["getWalletInfo"] = "rejected"]
  /\ IF pc = "awaitInfo"
        \/ (pc = "awaitFeeInfo" /\ PromiseAll("rejected", promise["getFee"]) = "rejected")
     THEN Throw(handleRequestError)
     ELSE UNCHANGED <<pc, result>>
  /\ UNCHANGED <<op, input, sent, info, quote, builderCalls>>
  /\ UNCHANGED cardanoVars
  /\ UNCHANGED hathorVars
  /\ UNCHANGED controllerVars

\* getFee answers, lines 158-161
getFeeFulfilled ==
  /\ promise["getFee"] = "pending"
  /\ \E feeV \in (IF op \in AccountOps THEN FeeQuotes ELSE [estimateValue : 1..MaxFee]) :
       /\ quote' = Some(feeV)
       /\ promise' = [promise EXCEPT !["getFee"] = "fulfilled"]
       /\ CASE pc = "awaitFee" -> BuildLedger(feeV.estimateValue, info[1])
            [] pc = "awaitFeeInfo"
               /\ PromiseAll(promise["getWalletInfo"], "fulfilled") = "fulfilled" ->
                 AfterFeeInfo(info[1], feeV)
            [] OTHER -> UNCHANGED <<pc, result, builderCalls>>
  /\ UNCHANGED <<op, input, sent, info>>
  /\ UNCHANGED cardanoVars
  /\ UNCHANGED hathorVars
  /\ UNCHANGED controllerVars

\* getFee fails, lines 162-164
getFeeRejected ==
  /\ promise["getFee"] = "pending"
  /\ promise' = [promise EXCEPT !["getFee"] = "rejected"]
  /\ IF pc = "awaitFee"
        \/ (pc = "awaitFeeInfo" /\ PromiseAll(promise["getWalletInfo"], "rejected") = "rejected")
     THEN Throw(handleRequestError)
     ELSE UNCHANGED <<pc, result>>
  /\ UNCHANGED <<op, input, sent, info, quote, builderCalls>>
  /\ UNCHANGED cardanoVars
  /\ UNCHANGED hathorVars
  /\ UNCHANGED controllerVars

\* the awaited builder returns the signed payload: the envelope is returned
builderReturns ==
  /\ pc = "awaitBuilder"
  /\ pc' = "done"
  /\ result' = SignedTransaction(builderCalls[Len(builderCalls)].protocol, TypeOf(op, input))
  /\ UNCHANGED <<op, input, sent, promise, info, quote, builderCalls>>
  /\ UNCHANGED cardanoVars
  /\ UNCHANGED hathorVars
  /\ UNCHANGED controllerVars

\* the awaited builder throws
builderThrows ==
  /\ pc = "awaitBuilder"
  /\ Throw(Rejected("BuilderError"))
  /\ UNCHANGED <<op, input, sent, promise, info, quote, builderCalls>>
  /\ UNCHANGED cardanoVars
  /\ UNCHANGED hathorVars
  /\ UNCHANGED controllerVars

NextFee ==
  \/ getFeeInfoCall
  \/ ledgerCall
  \/ getWalletInfoFulfilled
  \/ getWalletInfoRejected
  \/ getFeeFulfilled
  \/ getFeeRejected
  \/ builderReturns
  \/ builderThrows

SpecFee == InitFee /\ [][NextFee]_vars

(* ------------------- properties of the fee orchestration --------------- *)
Requested(r) == promise[r] # "none"

\* the call needs the chain state and a remotely resolved fee quote
NeedsBoth == op \in AccountOps \/ (op \in LedgerOps /\ ~Truthy(input.fee))

BuilderInvoked == builderCalls # <<>>

\* C1: every constructor that needs both getWalletInfo and getFee issues the
\* two requests concurrently: whenever one of them has been issued, the other
\* has been issued too (neither waits for the other's response).
C1_IssuedConcurrently ==
  NeedsBoth => (Requested("getWalletInfo") <=> Requested("getFee"))

\* C2: in every constructor that uses _getFeeInfo the builder is invoked only
\* after both fetches were fulfilled, and as soon as either fetch fails the
\* call has failed, no builder was invoked and no SignedTransaction is returned.
C2_BuildOnlyAfterBoth ==
  op \in AccountOps =>
    /\ BuilderInvoked =>
         promise["getWalletInfo"] = "fulfilled" /\ promise["getFee"] = "fulfilled"
    /\ (promise["getWalletInfo"] = "rejected" \/ promise["getFee"] = "rejected") =>
         /\ pc = "failed"
         /\ ~BuilderInvoked
         /\ result = handleRequestError

\* the chain state arrived, then the fee fetch failed: nothing is built
C2_Witness ==
  /\ op \in AccountOps
  /\ promise["getWalletInfo"] = "fulfilled"
  /\ promise["getFee"] = "rejected"
  /\ pc = "failed"

\* C3: every fee field present in the caller's override reaches the builder
\* with the override's value, whatever the resolved quote and whatever the
\* override's value (0 included).
C3_OverrideWins ==
  (op \in AccountOps /\ BuilderInvoked /\ input.fee # None) =>
    /\ input.fee[1].gas # None => builderCalls[1].fee.gas = input.fee[1].gas[1]
    /\ input.fee[1].gasPrice # None =>
         builderCalls[1].fee.gasPrice = input.fee[1].gasPrice[1]

\* C4: every field of the resolved quote that is absent from the override
\* reaches the builder with the resolved value; chainId always does; without
\* an override the resolved quote is passed unchanged.
C4_AbsentKeepsResolved ==
  (op \in AccountOps /\ BuilderInvoked) =>
    LET fee == builderCalls[1].fee
        resolved == quote[1]
    IN /\ fee.chainId = resolved.chainId
       /\ (input.fee = None \/ input.fee[1].gas = None) => fee.gas = resolved.gas
       /\ (input.fee = None \/ input.fee[1].gasPrice = None) =>
            fee.gasPrice = resolved.gasPrice
       /\ input.fee = None => fee = resolved

\* only gas is overridden, with a value other than the resolved one, and the
\* resolved gasPrice reaches the builder
C4_Witness ==
  /\ op \in AccountOps
  /\ BuilderInvoked
  /\ input.fee # None
  /\ input.fee[1].gas = Some(2)
  /\ input.fee[1].gasPrice = None
  /\ quote[1].gas = 1
  /\ quote[1].gasPrice = 2
  /\ builderCalls[1].fee = [gas |-> 2, gasPrice |-> 2, chainId |-> 1]

(* ------------------ createHathorTokenTransactionFromWallet ------------- *)
HathorTokenTypes == {"HATHOR_TOKEN_MELT", "HATHOR_TOKEN_MINT"}

\* the token the mint / melt is about, and another token of the wallet
TokenUid == "A"
OtherUid == "B"

\* services/blockchain/utils.toHTRUnit: an amount in the ledger's smallest
\* unit (two decimal places)
toHTRUnit(amount) == amount * 100

Values == {60, 100}

\* An unspent output as the chain holds it: token is what getUTXOs reports,
\* token_data and value are what getTransactionByHash reports for it.
\* token_data 0: native-asset output, 1: ordinary output of a token,
\* 129: authority output (value 1: mint authority, value 2: melt authority).
TokenUtxoKinds ==
  [token : {"00"}, token_data : {0}, value : Values]
  \cup [token : {TokenUid}, token_data : {1}, value : Values]
  \cup [token : {OtherUid}, token_data : {1}, value : {60}]
  \cup [token : {TokenUid}, token_data : {129}, value : {1, 2}]

SeqsUpTo(S, n) == UNION {[1..k -> S] : k \in 0..n}

\* response of getUTXOs: the k-th discovered output has txHash k, so no
\* output is reported twice
UTXOs(kinds) ==
  [k \in 1..Len(kinds) |->
     [txHash |-> k, index |-> 0, token |-> kinds[k].token,
      token_data |-> kinds[k].token_data, value |-> kinds[k].value]]

\* tx.tx.outputs[utxo.index] of the transaction getTransactionByHash returns
TxOutput(utxo) == [token_data |-> utxo.token_data, value |-> utxo.value]

HathorTokenInputs == [type : HathorTokenTypes, tokenUid : {TokenUid}, amount : 1..MaxAmount]

InitToken ==
  /\ op = "createHathorTokenTransactionFromWallet"
  /\ input \in HathorTokenInputs
  /\ pc = "start"
  /\ sent = <<>>
  /\ promise = NoPromises
  /\ info = None
  /\ quote = None
  /\ builderCalls = <<>>
  /\ result = Pending
  /\ discovered = <<>> /\ utxos = <<>> /\ i = 0 /\ inputs = <<>> /\ inputSum = 0
  /\ outputs = <<>> /\ tokens = <<>> /\ txs = <<>>
  /\ keyAddressMapper = <<>> /\ inputList = <<>> /\ waiting = {} /\ payload = <<>>
  /\ config = DefaultConfig /\ calls = <<>>

\* lines 900-903: the call asks for the wallet's unspent outputs
createHathorTokenTransactionFromWallet ==
  /\ op = "createHathorTokenTransactionFromWallet"
  /\ pc = "start"
  /\ sent' = Append(sent, Request("getUTXOs"))
  /\ promise' = [promise EXCEPT !["getUTXOs"] = "pending"]
  /\ pc' = "awaitUTXOs"
  /\ UNCHANGED <<op, input, info, quote, builderCalls, result>>
  /\ UNCHANGED cardanoVars
  /\ UNCHANGED hathorVars
  /\ UNCHANGED controllerVars

\* lines 904-908: the filter by token
FilterByToken(type, tokenUid, list) ==
  IF type = "HATHOR_TOKEN_MELT"
  THEN SelectSeq(list, LAMBDA u : u.token = tokenUid)
  ELSE SelectSeq(list, LAMBDA u : u.token = "00" \/ u.token = tokenUid)

\* lines 917 / 926: the output is an ordinary value output of the asset the
\* operation accumulates
IsOrdinary(type, output) ==
  IF type = "HATHOR_TOKEN_MELT" THEN output.token_data \notin {0, 129}
  ELSE output.token_data = 0

\* lines 922 / 931: the output is the authority output the operation needs
IsAuthority(type, output) ==
  /\ ~IsOrdinary(type, output)
  /\ output.token_data = 129
  /\ output.value = (IF type = "HATHOR_TOKEN_MELT" THEN 2 ELSE 1)

\* lines 918 / 927: an ordinary output is taken while the sum is short
TakesOrdinaryInclusive(sum, amountHTRUnit) == sum <= amountHTRUnit

TakesOrdinary(sum, amountHTRUnit) == sum < amountHTRUnit

\* lines 916-934: whether the loop pushes the output as an input
Selects(type, output, sum, amountHTRUnit) ==
  \/ IsOrdinary(type, output) /\ TakesOrdinary(sum, amountHTRUnit)
  \/ IsAuthority(type, output)

\* lines 919 / 928: the sum after the iteration
SumAfter(type, output, sum, amountHTRUnit) ==
  IF IsOrdinary(type, output) /\ TakesOrdinary(sum, amountHTRUnit)
  THEN sum + output.value
  ELSE sum

\* getUTXOs answers: lines 904-914, up to the first transaction lookup
tokenUTXOsFulfilled ==
  /\ op = "createHathorTokenTransactionFromWallet"
  /\ pc = "awaitUTXOs"
  /\ promise["getUTXOs"] = "pending"
  /\ \E kinds \in SeqsUpTo(TokenUtxoKinds, MaxUtxos) :
       LET filtered == FilterByToken(input.type, input.tokenUid, UTXOs(kinds))
       IN /\ discovered' = UTXOs(kinds)
          /\ utxos' = filtered
          /\ IF Len(filtered) = 0
             THEN /\ Throw(Rejected("HathorException: No available UTXOs"))
                  /\ promise' = [promise EXCEPT !["getUTXOs"] = "fulfilled"]
                  /\ UNCHANGED <<sent, i>>
             ELSE /\ i' = 1
                  /\ sent' = Append(sent, Lookup(filtered[1].txHash))
                  /\ promise' = [promise EXCEPT !["getUTXOs"] = "fulfilled",
                                                !["getTransactionByHash"] = "pending"]
                  /\ pc' = "awaitTx"
                  /\ UNCHANGED result
  /\ UNCHANGED <<op, input, info, quote, builderCalls, inputs, inputSum, outputs, tokens>>
  /\ UNCHANGED cardanoVars
  /\ UNCHANGED txs
  /\ UNCHANGED controllerVars

\* getUTXOs fails
getUTXOsRejected ==
  /\ pc = "awaitUTXOs"
  /\ promise["getUTXOs"] = "pending"
  /\ promise' = [promise EXCEPT !["getUTXOs"] = "rejected"]
  /\ Throw(handleRequestError)
  /\ UNCHANGED <<op, input, sent, info, quote, builderCalls>>
  /\ UNCHANGED cardanoVars
  /\ UNCHANGED hathorVars
  /\ UNCHANGED controllerVars

\* getTransactionByHash answers for utxos[i]: one iteration of the loop of
\* lines 913-935, then either the next lookup or, after the last iteration,
\* the call of buildHathorTokenTransaction (lines 936-949)
tokenTxFulfilled ==
  /\ op = "createHathorTokenTransactionFromWallet"
  /\ pc = "awaitTx"
  /\ promise["getTransactionByHash"] = "pending"
  /\ LET output == TxOutput(utxos[i])
         amountHTRUnit == toHTRUnit(input.amount)
         newInputs == IF Selects(input.type, output, inputSum, amountHTRUnit)
                      THEN Append(inputs, [txHash |-> utxos[i].txHash, index |-> utxos[i].index])
                      ELSE inputs
         newSum == SumAfter(input.type, output, inputSum, amountHTRUnit)
     IN /\ inputs' = newInputs
        /\ inputSum' = newSum
        /\ i' = i + 1
        /\ IF i < Len(utxos)
           THEN /\ sent' = Append(sent, Lookup(utxos[i + 1].txHash))
                /\ UNCHANGED <<promise, pc, result, builderCalls>>
           ELSE /\ promise' = [promise EXCEPT !["getTransactionByHash"] = "fulfilled"]
                /\ InvokeBuilder([type |-> input.type, inputs |-> newInputs,
                                  tokenUid |-> input.tokenUid, amount |-> input.amount,
                                  inputSum |-> newSum, protocol |-> "HATHOR"])
                /\ UNCHANGED sent
  /\ UNCHANGED <<op, input, info, quote, discovered, utxos, outputs, tokens>>
  /\ UNCHANGED cardanoVars
  /\ UNCHANGED txs
  /\ UNCHANGED controllerVars

\* getTransactionByHash fails
getTransactionByHashRejected ==
  /\ pc = "awaitTx"
  /\ promise["getTransactionByHash"] = "pending"
  /\ promise' = [promise EXCEPT !["getTransactionByHash"] = "rejected"]
  /\ Throw(handleRequestError)
  /\ UNCHANGED <<op, input, sent, info, quote, builderCalls>>
  /\ UNCHANGED cardanoVars
  /\ UNCHANGED hathorVars
  /\ UNCHANGED controllerVars

NextToken ==
  \/ createHathorTokenTransactionFromWallet
  \/ tokenUTXOsFulfilled
  \/ getUTXOsRejected
  \/ tokenTxFulfilled
  \/ getTransactionByHashRejected
  \/ builderReturns
  \/ builderThrows

SpecToken == InitToken /\ [][NextToken]_vars

(* --------------- properties of the mint / melt input selection --------- *)
\* the chain's view of a selected input (txHash is the discovery position)
OutputOf(in) == TxOutput(discovered[in.txHash])

RECURSIVE SumValues(_)
SumValues(outs) ==
  IF outs = <<>> THEN 0 ELSE outs[1].value + SumValues(Tail(outs))

\* the ordinary value outputs among the selected inputs, in selection order
SelectedOrdinary ==
  LET outs == [p \in 1..Len(inputs) |-> OutputOf(inputs[p])]
  IN SelectSeq(outs, LAMBDA o : IsOrdinary(input.type, o))

SelectedAuthorities ==
  {p \in 1..Len(inputs) : IsAuthority(input.type, OutputOf(inputs[p]))}

TokenBuilt == op = "createHathorTokenTransactionFromWallet" /\ BuilderInvoked

\* C5: whenever the mint / melt constructor proceeds to build, the inputSum
\* of the selected ordinary inputs covers the requested amount in smallest
\* units.
C5_InputSumCoversAmount ==
  TokenBuilt => builderCalls[1].inputSum >= toHTRUnit(input.amount)

\* C6: in a melt, if the discovered outputs contain a melt-authority output
\* of the target token, the selected input set is exactly one output, that
\* authority output, and holds no ordinary value output.
C6_MeltAuthorityAlone ==
  (/\ TokenBuilt
   /\ input.type = "HATHOR_TOKEN_MELT"
   /\ \E k \in 1..Len(discovered) :
        /\ discovered[k].token = input.tokenUid
        /\ IsAuthority("HATHOR_TOKEN_MELT", TxOutput(discovered[k])))
  => /\ Len(builderCalls[1].inputs) = 1
     /\ IsAuthority("HATHOR_TOKEN_MELT", OutputOf(builderCalls[1].inputs[1]))

\* the transaction lookups issued so far, in order
Lookups == SelectSeq(sent, LAMBDA r : r.req = "getTransactionByHash")

\* C7: candidates are examined in discovery order, the selected inputs keep
\* that order, and an ordinary output is selected only while the sum of the
\* ordinary outputs selected before it is strictly below the required amount.
C7_GreedyInDiscoveryOrder ==
  op = "createHathorTokenTransactionFromWallet" =>
    /\ \A a, b \in 1..Len(utxos) : a < b => utxos[a].txHash < utxos[b].txHash
    /\ \A k \in 1..Len(Lookups) : Lookups[k].hash = utxos[k].txHash
    /\ \A a, b \in 1..Len(inputs) : a < b => inputs[a].txHash < inputs[b].txHash
    /\ \A p \in 1..Len(SelectedOrdinary) :
         SumValues(SubSeq(SelectedOrdinary, 1, p - 1)) < toHTRUnit(input.amount)
    /\ inputSum = SumValues(SelectedOrdinary)

\* three ordinary candidates, the first two cover the amount, the third is
\* examined and left out
C7_Witness ==
  /\ TokenBuilt
  /\ input.type = "HATHOR_TOKEN_MINT"
  /\ input.amount = 1
  /\ Len(utxos) = 3
  /\ \A k \in 1..3 : IsOrdinary(input.type, TxOutput(utxos[k])) /\ utxos[k].value = 60
  /\ Len(Lookups) = 3
  /\ inputs = <<[txHash |-> 1, index |-> 0], [txHash |-> 2, index |-> 0]>>
  /\ inputSum = 120

\* C8: the selected input set holds at most one authority output of the
\* kind the operation needs (mint authority for a mint, melt authority for
\* a melt).
C8_AtMostOneAuthority ==
  TokenBuilt => Cardinality(SelectedAuthorities) <= 1

\* C9: the builder is never invoked with an empty input list: when no
\* candidate is left after filtering by token and by kind, the call fails.
C9_NeverBuildsWithoutInputs ==
  BuilderInvoked /\ "inputs" \in DOMAIN builderCalls[1] =>
    builderCalls[1].inputs # <<>>

(* ------------------- Hathor transfer constructors ---------------------- *)
HathorTransferOps == {"createHathorTransferTransactionFromWallet",
                      "createHathorTransferTransactionFromUTXO"}

\* token of a requested output: null / undefined, the symbol 'HTR', the
\* native-asset identifier '00', or a token uid
OutputTokens == Opt({"HTR", "00", TokenUid, OtherUid})

OutputLists == UNION {[1..k -> [token : OutputTokens]] : k \in 1..MaxOutputs}

TransferUtxoKinds ==
  [token : {"00"}, token_data : {0}, value : {60}]
  \cup [token : {TokenUid, OtherUid}, token_data : {1}, value : {60}]
  \cup [token : {TokenUid}, token_data : {129}, value : {1}]

\* explicit inputs of the caller: the k-th names output 0 of transaction k
InputLists == {[k \in 1..n |-> [txHash |-> k, index |-> 0]] : n \in 1..MaxUtxos}

HathorTransferInputs(o) ==
  IF o = "createHathorTransferTransactionFromWallet"
  THEN [outputs : OutputLists]
  ELSE [outputs : OutputLists, inputs : InputLists]

InitTransfer ==
  /\ op \in HathorTransferOps
  /\ input \in HathorTransferInputs(op)
  /\ pc = "start"
  /\ sent = <<>>
  /\ promise = NoPromises
  /\ info = None
  /\ quote = None
  /\ builderCalls = <<>>
  /\ result = Pending
  /\ discovered = <<>> /\ utxos = <<>> /\ i = 0 /\ inputs = <<>> /\ inputSum = 0
  /\ outputs = <<>> /\ tokens = <<>> /\ txs = <<>>
  /\ keyAddressMapper = <<>> /\ inputList = <<>> /\ waiting = {} /\ payload = <<>>
  /\ config = DefaultConfig /\ calls = <<>>

\* lines 817-819 / 859-861: 'HTR', null and undefined become '00'
NormalizeTokenSymbolOnly(token) ==
  IF token = Some("HTR") THEN Some("00") ELSE token

NormalizeToken(token) ==
  IF token = Some("HTR") \/ token = None THEN Some("00") ELSE token

\* lines 816-821: the outputs after the loop
NormalizeOutputs(outs) ==
  [k \in 1..Len(outs) |-> [outs[k] EXCEPT !.token = NormalizeToken(@)]]

Range(seq) == {seq[k] : k \in 1..Len(seq)}

\* tokenSet.add: a Set keeps the first insertion of each value
RECURSIVE SetFrom(_, _)
SetFrom(outs, acc) ==
  IF outs = <<>> THEN acc
  ELSE SetFrom(Tail(outs),
               IF outs[1].token \in Range(acc) THEN acc ELSE Append(acc, outs[1].token))

\* lines 822 / 864: Array.from(tokenSet).filter((i) => i) drops the falsy
\* members (null, undefined, the empty string)
TokenList(outs) ==
  LET kept == SelectSeq(SetFrom(outs, <<>>), LAMBDA t : t # None /\ t[1] # "")
  IN [k \in 1..Len(kept) |-> kept[k][1]]

\* the first index from j on whose output carries one of the tokens, or
\* Len + 1: the iterations of the loop of lines 824-837 that do not await
RECURSIVE NextCandidate(_, _, _)
NextCandidate(list, toks, j) ==
  IF j > Len(list) \/ list[j].token \in Range(toks) THEN j
  ELSE NextCandidate(list, toks, j + 1)

\* lines 838-844 / 872-877
BuildTransfer(ins, outs, toks) ==
  InvokeBuilder([inputs |-> ins, outputs |-> outs, tokens |-> toks, protocol |-> "HATHOR"])

\* lines 808-811
createHathorTransferTransactionFromWallet ==
  /\ op = "createHathorTransferTransactionFromWallet"
  /\ pc = "start"
  /\ sent' = Append(sent, Request("getUTXOs"))
  /\ promise' = [promise EXCEPT !["getUTXOs"] = "pending"]
  /\ pc' = "awaitUTXOs"
  /\ UNCHANGED <<op, input, info, quote, builderCalls, result>>
  /\ UNCHANGED cardanoVars
  /\ UNCHANGED hathorVars
  /\ UNCHANGED controllerVars

\* getUTXOs answers: lines 812-826, up to the first transaction lookup
transferUTXOsFulfilled ==
  /\ op = "createHathorTransferTransactionFromWallet"
  /\ pc = "awaitUTXOs"
  /\ promise["getUTXOs"] = "pending"
  /\ \E kinds \in SeqsUpTo(TransferUtxoKinds, MaxUtxos) :
       LET list == UTXOs(kinds)
           outs == NormalizeOutputs(input.outputs)
           toks == TokenList(outs)
           j == NextCandidate(list, toks, 1)
       IN /\ discovered' = list
          /\ utxos' = list
          /\ IF Len(list) = 0
             THEN /\ Throw(Rejected("GenericException: No available UTXOs"))
                  /\ promise' = [promise EXCEPT !["getUTXOs"] = "fulfilled"]
                  /\ UNCHANGED <<sent, i, outputs, tokens, builderCalls>>
             ELSE /\ outputs' = outs
                  /\ tokens' = toks
                  /\ i' = j
                  /\ IF j <= Len(list)
                     THEN /\ sent' = Append(sent, Lookup(list[j].txHash))
                          /\ promise' = [promise EXCEPT !["getUTXOs"] = "fulfilled",
                                                        !["getTransactionByHash"] = "pending"]
                          /\ pc' = "awaitTx"
                          /\ UNCHANGED <<result, builderCalls>>
                     ELSE /\ promise' = [promise EXCEPT !["getUTXOs"] = "fulfilled"]
                          /\ BuildTransfer(<<>>, outs, toks)
                          /\ UNCHANGED sent
  /\ UNCHANGED <<op, input, info, quote, inputs, inputSum>>
  /\ UNCHANGED cardanoVars
  /\ UNCHANGED txs
  /\ UNCHANGED controllerVars

\* lines 827-830: an output of a target token is spent unless it is an
\* authority output
IsSpendableAlways(utxo, output) == TRUE

IsSpendable(utxo, output) ==
  utxo.token = "00" \/ (utxo.token # "00" /\ output.token_data \notin {0, 129})

\* getTransactionByHash answers for utxos[i]: lines 827-837, then the next
\* lookup or the call of buildHathorTransferTransaction
transferTxFulfilled ==
  /\ op = "createHathorTransferTransactionFromWallet"
  /\ pc = "awaitTx"
  /\ promise["getTransactionByHash"] = "pending"
  /\ LET newInputs == IF IsSpendable(utxos[i], TxOutput(utxos[i]))
                      THEN Append(inputs, utxos[i])
                      ELSE inputs
         j == NextCandidate(utxos, tokens, i + 1)
     IN /\ inputs' = newInputs
        /\ i' = j
        /\ IF j <= Len(utxos)
           THEN /\ sent' = Append(sent, Lookup(utxos[j].txHash))
                /\ UNCHANGED <<promise, pc, result, builderCalls>>
           ELSE /\ promise' = [promise EXCEPT !["getTransactionByHash"] = "fulfilled"]
                /\ BuildTransfer(newInputs, outputs, tokens)
                /\ UNCHANGED sent
  /\ UNCHANGED <<op, input, info, quote, discovered, utxos, inputSum, outputs, tokens>>
  /\ UNCHANGED cardanoVars
  /\ UNCHANGED txs
  /\ UNCHANGED controllerVars

\* lines 853-866: the outputs are normalised, then the first input is looked up
createHathorTransferTransactionFromUTXO ==
  /\ op = "createHathorTransferTransactionFromUTXO"
  /\ pc = "start"
  /\ outputs' = NormalizeOutputs(input.outputs)
  /\ tokens' = TokenList(NormalizeOutputs(input.outputs))
  /\ inputs' = input.inputs
  /\ i' = 1
  /\ sent' = Append(sent, Lookup(input.inputs[1].txHash))
  /\ promise' = [promise EXCEPT !["getTransactionByHash"] = "pending"]
  /\ pc' = "awaitTx"
  /\ UNCHANGED <<op, input, info, quote, builderCalls, result, discovered, utxos, inputSum>>
  /\ UNCHANGED cardanoVars
  /\ UNCHANGED txs
  /\ UNCHANGED controllerVars

\* getTransactionByHash answers for inputs[i]: lines 867-869.  The answer is
\* a transaction whose output list has the index or not; its token list
\* holds one token, so token_data 129 indexes past it.  No line tests the
\* output before its fields are read: reading a field of undefined throws
\* a TypeError.
utxoTxFulfilled ==
  /\ op = "createHathorTransferTransactionFromUTXO"
  /\ pc = "awaitTx"
  /\ promise["getTransactionByHash"] = "pending"
  /\ \E utxo \in Opt(TransferUtxoKinds) :
       /\ txs' = Append(txs, utxo)
       /\ IF utxo = None \/ utxo[1].token_data \notin {0, 1}
          THEN /\ promise' = [promise EXCEPT !["getTransactionByHash"] = "fulfilled"]
               /\ Throw(Rejected("TypeError"))
               /\ UNCHANGED <<inputs, i, sent, builderCalls>>
          ELSE LET resolved == [txHash |-> inputs[i].txHash, index |-> inputs[i].index,
                                value |-> utxo[1].value,
                                token |-> IF utxo[1].token_data = 0 THEN "00" ELSE utxo[1].token]
                   newInputs == [inputs EXCEPT ![i] = resolved]
               IN /\ inputs' = newInputs
                  /\ i' = i + 1
                  /\ IF i < Len(inputs)
                     THEN /\ sent' = Append(sent, Lookup(inputs[i + 1].txHash))
                          /\ UNCHANGED <<promise, pc, result, builderCalls>>
                     ELSE /\ promise' = [promise EXCEPT !["getTransactionByHash"] = "fulfilled"]
                          /\ BuildTransfer(newInputs, outputs, tokens)
                          /\ UNCHANGED sent
  /\ UNCHANGED <<op, input, info, quote, discovered, utxos, inputSum, outputs, tokens>>
  /\ UNCHANGED cardanoVars
  /\ UNCHANGED controllerVars

NextTransfer ==
  \/ createHathorTransferTransactionFromWallet
  \/ transferUTXOsFulfilled
  \/ getUTXOsRejected
  \/ transferTxFulfilled
  \/ createHathorTransferTransactionFromUTXO
  \/ utxoTxFulfilled
  \/ getTransactionByHashRejected
  \/ builderReturns
  \/ builderThrows

SpecTransfer == InitTransfer /\ [][NextTransfer]_vars

(* ------------------ Hathor token operation from UTXOs ------------------ *)
\* the intent of createHathorTokenTransactionFromUTXO, lines 959-971
HathorTokenUTXOInputs ==
  [type : HathorTokenTypes, tokenUid : {TokenUid}, amount : 1..MaxAmount,
   inputs : InputLists]

InitTokenUTXO ==
  /\ op = "createHathorTokenTransactionFromUTXO"
  /\ input \in HathorTokenUTXOInputs
  /\ pc = "start"
  /\ sent = <<>>
  /\ promise = NoPromises
  /\ info = None
  /\ quote = None
  /\ builderCalls = <<>>
  /\ result = Pending
  /\ discovered = <<>> /\ utxos = <<>> /\ i = 0 /\ inputs = <<>> /\ inputSum = 0
  /\ outputs = <<>> /\ tokens = <<>> /\ txs = <<>>
  /\ keyAddressMapper = <<>> /\ inputList = <<>> /\ waiting = {} /\ payload = <<>>
  /\ config = DefaultConfig /\ calls = <<>>

\* lines 976-982: what one resolved output adds to inputSum
AddToInputSum(type, sum, output) ==
  IF type = "HATHOR_TOKEN_MELT" /\ output.token_data \notin {0, 129}
  THEN sum + output.value
  ELSE IF output.token_data = 0 THEN sum + output.value ELSE sum

\* lines 972-975: the first input is looked up
createHathorTokenTransactionFromUTXO ==
  /\ op = "createHathorTokenTransactionFromUTXO"
  /\ pc = "start"
  /\ inputs' = input.inputs
  /\ inputSum' = 0
  /\ i' = 1
  /\ sent' = Append(sent, Lookup(input.inputs[1].txHash))
  /\ promise' = [promise EXCEPT !["getTransactionByHash"] = "pending"]
  /\ pc' = "awaitTx"
  /\ UNCHANGED <<op, input, info, quote, builderCalls, result>>
  /\ UNCHANGED <<discovered, utxos, outputs, tokens, txs>>
  /\ UNCHANGED cardanoVars
  /\ UNCHANGED controllerVars

\* getTransactionByHash answers for inputs[i]: lines 976-983, then the next
\* lookup or the call of buildHathorTokenTransaction (lines 984-997).  The
\* output list of the answer has the index or not; token_data of a missing
\* output cannot be read
tokenUtxoTxFulfilled ==
  /\ op = "createHathorTokenTransactionFromUTXO"
  /\ pc = "awaitTx"
  /\ promise["getTransactionByHash"] = "pending"
  /\ \E utxo \in Opt(TokenUtxoKinds) :
       /\ txs' = Append(txs, utxo)
       /\ IF utxo = None
          THEN /\ promise' = [promise EXCEPT !["getTransactionByHash"] = "fulfilled"]
               /\ Throw(Rejected("TypeError"))
               /\ UNCHANGED <<inputSum, i, sent, builderCalls>>
          ELSE LET sum == AddToInputSum(input.type, inputSum, TxOutput(utxo[1]))
               IN /\ inputSum' = sum
                  /\ i' = i + 1
                  /\ IF i < Len(inputs)
                     THEN /\ sent' = Append(sent, Lookup(inputs[i + 1].txHash))
                          /\ UNCHANGED <<promise, pc, result, builderCalls>>
                     ELSE /\ promise' = [promise EXCEPT !["getTransactionByHash"] = "fulfilled"]
                          /\ InvokeBuilder([inputs |-> inputs, inputSum |-> sum,
                                            type |-> input.type, amount |-> input.amount,
                                            tokenUid |-> input.tokenUid,
                                            protocol |-> "HATHOR"])
                          /\ UNCHANGED sent
  /\ UNCHANGED <<op, input, info, quote, discovered, utxos, inputs, outputs, tokens>>
  /\ UNCHANGED cardanoVars
  /\ UNCHANGED controllerVars

NextTokenUTXO ==
  \/ createHathorTokenTransactionFromUTXO
  \/ tokenUtxoTxFulfilled
  \/ getTransactionByHashRejected
  \/ builderReturns
  \/ builderThrows

SpecTokenUTXO == InitTokenUTXO /\ [][NextTokenUTXO]_vars

(* --------------------------- Cardano transfers ------------------------- *)
CardanoOps == {"createCardanoTransferTransactionFromWallet",
               "createCardanoTransferTransactionFromUTXO"}

Addresses == {"addr1", "addr2"}

\* a 128-byte extended private key in hex: the secret part comes first, the
\* characters 128..191 are the public key
PrivateKeys == {[secret |-> "secret1", public |-> "public1"],
                [secret |-> "secret2", public |-> "public2"]}

TxHashes == {1, 2}

\* unspent outputs as getUTXOs reports them: the index is a number
Outpoints == [txHash : TxHashes, index : {0, 1}]

\* u.index.toString()
ToString(n) == CASE n = 0 -> "0" [] n = 1 -> "1"

\* the chain state the responses are drawn from: the outputs of
\* transaction 1 belong to addr1, those of transaction 2 to addr2
Owner(txHash) == IF txHash = 1 THEN "addr1" ELSE "addr2"

\* response of getUTXOs for one address: outputs of that address, each
\* reported once
CardanoUtxoLists(address) ==
  {l \in SeqsUpTo({u \in Outpoints : Owner(u.txHash) = address}, MaxInputs) :
     \A a, b \in 1..Len(l) : a # b => l[a] # l[b]}

\* the requested outputs play no part in the orchestration
CardanoOutputs == <<[address |-> "addr2", amount |-> "1"]>>

\* an explicit input of createCardanoTransferTransactionFromUTXO: the index
\* is a string
CardanoInputs ==
  [address : Addresses, privateKey : PrivateKeys, txHash : TxHashes, index : {"0", "1"}]

CardanoIntents(o) ==
  IF o = "createCardanoTransferTransactionFromWallet"
  THEN [wallet : [address : Addresses, privateKey : PrivateKeys],
        outputs : {CardanoOutputs}]
  ELSE [inputs : UNION {[1..n -> CardanoInputs] : n \in 1..MaxInputs},
        outputs : {CardanoOutputs}]

\* payloads of the payload response: one per required signature, each names
\* the address that has to sign and the bytes to sign
SigningPayloads ==
  UNION {[1..n -> Addresses] : n \in 0..MaxPayloads}

PayloadResponse(addresses) ==
  [unsigned_transaction |-> "unsigned",
   payloads |-> [k \in 1..Len(addresses) |->
                   [account_identifier |-> [address |-> addresses[k]], hex_bytes |-> k]]]

InitCardano ==
  /\ op \in CardanoOps
  /\ input \in CardanoIntents(op)
  /\ pc = "start"
  /\ sent = <<>>
  /\ promise = NoPromises
  /\ info = None
  /\ quote = None
  /\ builderCalls = <<>>
  /\ result = Pending
  /\ discovered = <<>> /\ utxos = <<>> /\ i = 0 /\ inputs = <<>> /\ inputSum = 0
  /\ outputs = <<>> /\ tokens = <<>> /\ txs = <<>>
  /\ keyAddressMapper = [a \in Addresses |-> None]
  /\ inputList = <<>> /\ waiting = {} /\ payload = None
  /\ config = DefaultConfig /\ calls = <<>>

\* getUTXOs({ address, protocol })
GetUTXOs(address) == [req |-> "getUTXOs", address |-> address]

\* services/blockchain/cardano.buildOperation(utxo, address, outputs, fee):
\* the operations are a function of the arguments; the draft has no fee
buildOperation(utxo, address, outs, fee) ==
  [operations |-> [inputs |-> utxo, address |-> address, outputs |-> outs, fee |-> fee]]

\* services/blockchain/cardano.buildOperationFromInputs(inputList, outputs)
buildOperationFromInputs(list, outs) ==
  [operations |-> [inputs |-> list, outputs |-> outs]]

\* the preprocess request, lines 1028-1037 / 1122-1131
Preprocess(operations) ==
  [req |-> "preprocess", operations |-> operations, metadata |-> [relative_ttl |-> 1000]]

\* the payload request, lines 1044-1047 / 1136-1139
GetPayload(operations) == [req |-> "getPayload", operations |-> operations]

\* the combine request, lines 1071-1074 / 1161-1164
CombineAsBroadcast(unsigned, signatures) ==
  [req |-> "sendTransaction", unsigned_transaction |-> unsigned, signatures |-> signatures]

CombineSignatures(unsigned, signatures) ==
  [req |-> "combineSignatures", unsigned_transaction |-> unsigned, signatures |-> signatures]

\* the catch of both constructors, lines 1078-1080 / 1167-1169: a failed
\* request reaches the caller as handleRequestError leaves it, any other
\* error aborts the call as it was thrown
Caught(error) ==
  IF error = "RequestFailed" THEN handleRequestError ELSE Rejected(error)

\* Bip32PrivateKey.to_raw_key(): the signing key of an extended key
to_raw_key(key) == key.secret

\* make_vkey_witness(hash, key).signature(): a signature is known by the
\* bytes it signs and the key that signed
make_vkey_witness(hash, key) == [message |-> hash, key |-> key]

\* lines 1010-1014: the one key pair of the wallet
WalletKeyMapper(wallet) ==
  [a \in Addresses |->
     IF a = wallet.address
     THEN Some([secretKey |-> wallet.privateKey.secret,
                publicKey |-> wallet.privateKey.public])
     ELSE None]

\* the last position of ins that names address a, 0 when none does
LastWith(ins, a) ==
  LET at == {k \in 1..Len(ins) : ins[k].address = a}
  IN IF at = {} THEN 0 ELSE CHOOSE k \in at : \A j \in at : j <= k

\* lines 1097-1103: every input stores its key under its address, in the
\* order of the inputs, so the last input of an address decides
InputKeyMapperFirstKey(ins) ==
  [a \in Addresses |->
     IF LastWith(ins, a) = 0 THEN None
     ELSE Some([secretKey |-> ins[1].privateKey,
                publicKey |-> ins[1].privateKey.public])]

InputKeyMapper(ins) ==
  [a \in Addresses |->
     IF LastWith(ins, a) = 0 THEN None
     ELSE Some([secretKey |-> ins[LastWith(ins, a)].privateKey,
                publicKey |-> ins[LastWith(ins, a)].privateKey.public])]

\* lines 1053-1068: the signature of one payload, signed with the wallet key
SignWithWalletKey(signing_payload, mapper, privateKey) ==
  [signing_payload |-> signing_payload,
   public_key |-> [hex_bytes |-> mapper[signing_payload.account_identifier.address][1].publicKey,
                   curve_type |-> "edwards25519"],
   signature_type |-> "ed25519",
   hex_bytes |-> make_vkey_witness(signing_payload.hex_bytes, to_raw_key(privateKey))]

\* lines 1144-1159: the signature of one payload, signed with the key
\* stored under the address of the payload
SignWithMappedKey(signing_payload, mapper) ==
  LET held == mapper[signing_payload.account_identifier.address][1]
  IN [signing_payload |-> signing_payload,
      public_key |-> [hex_bytes |-> held.publicKey, curve_type |-> "edwards25519"],
      signature_type |-> "ed25519",
      hex_bytes |-> make_vkey_witness(signing_payload.hex_bytes, to_raw_key(held.secretKey))]

\* reading .publicKey of keyAddressMapper[address] throws when no key is
\* stored under the address (lines 1056 / 1147)
KeyMissing(payloads, mapper) ==
  \E k \in 1..Len(payloads) : mapper[payloads[k].account_identifier.address] = None

\* payload.data.payloads.map(...), lines 1049-1069 / 1140-1160
SignaturesFirstOnly(payloads, mapper) ==
  [k \in 1..(IF Len(payloads) = 0 THEN 0 ELSE 1) |->
     IF op = "createCardanoTransferTransactionFromWallet"
     THEN SignWithWalletKey(payloads[k], mapper, input.wallet.privateKey)
     ELSE SignWithMappedKey(payloads[k], mapper)]

Signatures(payloads, mapper) ==
  [k \in 1..Len(payloads) |->
     IF op = "createCardanoTransferTransactionFromWallet"
     THEN SignWithWalletKey(payloads[k], mapper, input.wallet.privateKey)
     ELSE SignWithMappedKey(payloads[k], mapper)]

\* lines 1008-1020: the key is stored, then the outputs are discovered
createCardanoTransferTransactionFromWallet ==
  /\ op = "createCardanoTransferTransactionFromWallet"
  /\ pc = "start"
  /\ keyAddressMapper' = WalletKeyMapper(input.wallet)
  /\ sent' = Append(sent, GetUTXOs(input.wallet.address))
  /\ promise' = [promise EXCEPT !["getUTXOs"] = "pending"]
  /\ pc' = "awaitUTXOs"
  /\ UNCHANGED <<op, input, info, quote, builderCalls, result, inputList, waiting, payload>>
  /\ UNCHANGED hathorVars
  /\ UNCHANGED controllerVars

\* getUTXOs answers: lines 1021-1037, the fee-less draft goes to preprocess
walletUTXOsFulfilled ==
  /\ op = "createCardanoTransferTransactionFromWallet"
  /\ pc = "awaitUTXOs"
  /\ \E utxo \in CardanoUtxoLists(input.wallet.address) :
       LET feelessTx == buildOperation(utxo, input.wallet.address, input.outputs, None)
       IN /\ discovered' = utxo
          /\ sent' = Append(sent, Preprocess(feelessTx.operations))
  /\ promise' = [promise EXCEPT !["getUTXOs"] = "fulfilled", !["preprocess"] = "pending"]
  /\ pc' = "awaitPreprocess"
  /\ UNCHANGED <<op, input, info, quote, builderCalls, result>>
  /\ UNCHANGED <<utxos, i, inputs, inputSum, outputs, tokens, txs>>
  /\ UNCHANGED cardanoVars
  /\ UNCHANGED controllerVars

\* lines 1096-1105: every callback of inputs.map stores its key and issues
\* its getUTXOs before Promise.all suspends the call
createCardanoTransferTransactionFromUTXO ==
  /\ op = "createCardanoTransferTransactionFromUTXO"
  /\ pc = "start"
  /\ keyAddressMapper' = InputKeyMapper(input.inputs)
  /\ sent' = sent \o [k \in 1..Len(input.inputs) |-> GetUTXOs(input.inputs[k].address)]
  /\ promise' = [promise EXCEPT !["getUTXOs"] = "pending"]
  /\ waiting' = 1..Len(input.inputs)
  /\ pc' = "awaitUTXOs"
  /\ UNCHANGED <<op, input, info, quote, builderCalls, result, inputList, payload>>
  /\ UNCHANGED hathorVars
  /\ UNCHANGED controllerVars

\* line 1107: the discovered output is the one the input names
Matches(u, in) == u.txHash = in.txHash /\ ToString(u.index) = in.index

\* lines 1106-1110: the matches of one answer, in the order of the answer
MatchedWithInput(utxo, in) ==
  LET hits == SelectSeq(utxo, LAMBDA u : Matches(u, in))
  IN [k \in 1..Len(hits) |->
        [txHash |-> hits[k].txHash, index |-> hits[k].index, address |-> in.address,
         privateKey |-> in.privateKey]]

Matched(utxo, in) ==
  LET hits == SelectSeq(utxo, LAMBDA u : Matches(u, in))
  IN [k \in 1..Len(hits) |->
        [txHash |-> hits[k].txHash, index |-> hits[k].index, address |-> in.address]]

\* line 1114
AllInputsValidSome(list, ins) == Len(list) >= 1

AllInputsValid(list, ins) == Len(list) = Len(ins)

\* the getUTXOs of input k answers: lines 1106-1110; the last answer lets
\* Promise.all fulfil and lines 1114-1131 run
inputUTXOsFulfilled(k) ==
  /\ op = "createCardanoTransferTransactionFromUTXO"
  /\ k \in waiting
  /\ waiting' = waiting \ {k}
  /\ \E utxo \in CardanoUtxoLists(input.inputs[k].address) :
       LET list == inputList \o Matched(utxo, input.inputs[k])
       IN /\ inputList' = list
          /\ IF pc = "awaitUTXOs" /\ waiting = {k}
             THEN IF AllInputsValid(list, input.inputs)
                  THEN /\ sent' = Append(sent,
                            Preprocess(buildOperationFromInputs(list, input.outputs).operations))
                       /\ promise' = [promise EXCEPT !["getUTXOs"] = "fulfilled",
                                                     !["preprocess"] = "pending"]
                       /\ pc' = "awaitPreprocess"
                       /\ UNCHANGED result
                  ELSE /\ Throw(Caught("Error: One or more inputs are invalid"))
                       /\ promise' = [promise EXCEPT !["getUTXOs"] = "fulfilled"]
                       /\ UNCHANGED sent
             ELSE UNCHANGED <<sent, promise, pc, result>>
  /\ UNCHANGED <<op, input, info, quote, builderCalls, keyAddressMapper, payload>>
  /\ UNCHANGED hathorVars
  /\ UNCHANGED controllerVars

\* the getUTXOs of input k fails: Promise.all rejects at the first failure
inputUTXOsRejected(k) ==
  /\ op = "createCardanoTransferTransactionFromUTXO"
  /\ k \in waiting
  /\ waiting' = waiting \ {k}
  /\ IF pc = "awaitUTXOs"
     THEN /\ Throw(Caught("RequestFailed"))
          /\ promise' = [promise EXCEPT !["getUTXOs"] = "rejected"]
     ELSE UNCHANGED <<pc, result, promise>>
  /\ UNCHANGED <<op, input, sent, info, quote, builderCalls, keyAddressMapper,
                 inputList, payload>>
  /\ UNCHANGED hathorVars
  /\ UNCHANGED controllerVars

\* preprocess answers: lines 1039-1041 / 1133-1135
preprocessFulfilled ==
  /\ op \in CardanoOps
  /\ pc = "awaitPreprocess"
  /\ sent' = Append(sent, Request("getMetadata"))
  /\ promise' = [promise EXCEPT !["preprocess"] = "fulfilled", !["getMetadata"] = "pending"]
  /\ pc' = "awaitMetadata"
  /\ UNCHANGED <<op, input, info, quote, builderCalls, result>>
  /\ UNCHANGED hathorVars
  /\ UNCHANGED cardanoVars
  /\ UNCHANGED controllerVars

\* metadata answers.  From a wallet the operations are built again with the
\* suggested fee (line 1043); from explicit inputs the operations of line
\* 1121 are sent once more (line 1137)
metadataFulfilled ==
  /\ op \in CardanoOps
  /\ pc = "awaitMetadata"
  /\ \E fee \in 1..MaxFee :
       LET builtTx == IF op = "createCardanoTransferTransactionFromWallet"
                      THEN buildOperation(discovered, input.wallet.address,
                                          input.outputs, Some(fee))
                      ELSE buildOperationFromInputs(inputList, input.outputs)
       IN /\ quote' = Some([suggested_fee |-> fee])
          /\ sent' = Append(sent, GetPayload(builtTx.operations))
  /\ promise' = [promise EXCEPT !["getMetadata"] = "fulfilled", !["getPayload"] = "pending"]
  /\ pc' = "awaitPayload"
  /\ UNCHANGED <<op, input, info, builderCalls, result>>
  /\ UNCHANGED hathorVars
  /\ UNCHANGED cardanoVars
  /\ UNCHANGED controllerVars

\* the payloads arrive: every payload is signed (lines 1049-1069 /
\* 1140-1160), then the signatures go to combine (lines 1071-1074 / 1161-1164)
payloadFulfilled ==
  /\ op \in CardanoOps
  /\ pc = "awaitPayload"
  /\ \E addresses \in SigningPayloads :
       LET response == PayloadResponse(addresses)
       IN /\ payload' = Some(response)
          /\ IF KeyMissing(response.payloads, keyAddressMapper)
             THEN /\ Throw(Caught("TypeError"))
                  /\ promise' = [promise EXCEPT !["getPayload"] = "fulfilled"]
                  /\ UNCHANGED sent
             ELSE /\ sent' = Append(sent,
                        CombineSignatures(response.unsigned_transaction,
                                          Signatures(response.payloads, keyAddressMapper)))
                  /\ promise' = [promise EXCEPT !["getPayload"] = "fulfilled",
                                                !["combineSignatures"] = "pending"]
                  /\ pc' = "awaitCombine"
                  /\ UNCHANGED result
  /\ UNCHANGED <<op, input, info, quote, builderCalls, keyAddressMapper, inputList, waiting>>
  /\ UNCHANGED hathorVars
  /\ UNCHANGED controllerVars

\* combine answers: lines 1075-1077 / 1165-1166
combineFulfilled ==
  /\ op \in CardanoOps
  /\ pc = "awaitCombine"
  /\ promise' = [promise EXCEPT !["combineSignatures"] = "fulfilled"]
  /\ pc' = "done"
  /\ result' = SignedTransaction("CARDANO", "TRANSFER")
  /\ UNCHANGED <<op, input, sent, info, quote, builderCalls>>
  /\ UNCHANGED hathorVars
  /\ UNCHANGED cardanoVars
  /\ UNCHANGED controllerVars

\* the request a suspended Cardano call waits for
Awaited ==
  CASE pc = "awaitPreprocess" -> "preprocess"
    [] pc = "awaitMetadata" -> "getMetadata"
    [] pc = "awaitPayload" -> "getPayload"
    [] pc = "awaitCombine" -> "combineSignatures"
    [] OTHER -> "getUTXOs"

\* the awaited request of the handshake (or the getUTXOs of the wallet)
\* fails: the catch ends the call
cardanoRequestRejected ==
  /\ op \in CardanoOps
  /\ \/ pc \in {"awaitPreprocess", "awaitMetadata", "awaitPayload", "awaitCombine"}
     \/ pc = "awaitUTXOs" /\ op = "createCardanoTransferTransactionFromWallet"
  /\ promise' = [promise EXCEPT ![Awaited] = "rejected"]
  /\ Throw(Caught("RequestFailed"))
  /\ UNCHANGED <<op, input, sent, info, quote, builderCalls>>
  /\ UNCHANGED hathorVars
  /\ UNCHANGED cardanoVars
  /\ UNCHANGED controllerVars

NextCardano ==
  \/ createCardanoTransferTransactionFromWallet
  \/ walletUTXOsFulfilled
  \/ createCardanoTransferTransactionFromUTXO
  \/ \E k \in 1..MaxInputs : inputUTXOsFulfilled(k)
  \/ \E k \in 1..MaxInputs : inputUTXOsRejected(k)
  \/ preprocessFulfilled
  \/ metadataFulfilled
  \/ payloadFulfilled
  \/ combineFulfilled
  \/ cardanoRequestRejected

SpecCardano == InitCardano /\ [][NextCardano]_vars

(* --------------------------- Uniswap createPool ------------------------ *)
PoolProtocols == {"CELO", "ETHEREUM", "POLYGON", "BSC"}

\* the intent of createPool, line 27
CreatePoolInputs ==
  [protocol : PoolProtocols,
   wallet : [address : Addresses, privateKey : PrivateKeys],
   tokenA : {"tokenA"}, tokenB : {"tokenB"}, fee : {500, 3000}, price : {"1"}]

\* what the remote answers: the unsigned transaction, the pool and whether
\* the pool existed already
CreatePoolResponses ==
  [rawTransaction : {"rawTransaction"}, pool : {"pool1", "pool2"}, initialized : BOOLEAN]

InitUniswap ==
  /\ op = "createPool"
  /\ input \in CreatePoolInputs
  /\ pc = "start"
  /\ sent = <<>>
  /\ promise = NoPromises
  /\ info = None
  /\ quote = None
  /\ builderCalls = <<>>
  /\ result = Pending
  /\ discovered = <<>> /\ utxos = <<>> /\ i = 0 /\ inputs = <<>> /\ inputSum = 0
  /\ outputs = <<>> /\ tokens = <<>> /\ txs = <<>>
  /\ keyAddressMapper = <<>> /\ inputList = <<>> /\ waiting = {} /\ payload = <<>>
  /\ config = DefaultConfig /\ calls = <<>>

\* lines 28-34: the request that asks the remote for the pool transaction
CreatePoolRequest(in) ==
  [req |-> "createPool", protocol |-> in.protocol,
   body |-> [from |-> in.wallet.address, tokenA |-> in.tokenA, tokenB |-> in.tokenB,
             fee |-> in.fee, price |-> in.price]]

\* lines 44-55: the signer of the protocol, none for an unsupported one
SignerOfAny(protocol) ==
  IF protocol = "CELO" THEN "signCeloTx" ELSE "signEthereumTx"

SignerOf(protocol) ==
  CASE protocol = "CELO" -> "signCeloTx"
    [] protocol \in {"ETHEREUM", "POLYGON"} -> "signEthereumTx"
    [] OTHER -> "none"

\* tc.sendTransaction, part_000 lines 92-100: the broadcast request
SendTransaction(transaction) ==
  [req |-> "sendTransaction", protocol |-> transaction.protocol,
   body |-> [signedTx |-> "signedTx", type |-> transaction.type]]

\* the result of createPool, lines 37-40 / 56-62
CreatePoolResult(transaction, pool) ==
  [status |-> "fulfilled", transaction |-> transaction, pool |-> pool]

\* lines 24-34
createPool ==
  /\ op = "createPool"
  /\ pc = "start"
  /\ sent' = Append(sent, CreatePoolRequest(input))
  /\ promise' = [promise EXCEPT !["createPool"] = "pending"]
  /\ pc' = "awaitCreatePool"
  /\ UNCHANGED <<op, input, info, quote, builderCalls, result>>
  /\ UNCHANGED hathorVars
  /\ UNCHANGED cardanoVars
  /\ UNCHANGED controllerVars

\* the broadcast of the signed transaction, lines 56-61
Broadcast ==
  /\ sent' = Append(sent, SendTransaction(SignedTransaction(input.protocol, "CREATE_POOL")))
  /\ pc' = "awaitSend"

\* the remote answers: lines 36-61.  signCeloTx is awaited, signEthereumTx
\* returns at once and the broadcast follows in the same step
createPoolFulfilled ==
  /\ op = "createPool"
  /\ pc = "awaitCreatePool"
  /\ \E response \in CreatePoolResponses :
       /\ info' = Some(response)
       /\ IF response.initialized
          THEN /\ pc' = "done"
               /\ result' = CreatePoolResult(None, response.pool)
               /\ promise' = [promise EXCEPT !["createPool"] = "fulfilled"]
               /\ UNCHANGED <<sent, builderCalls>>
          ELSE CASE SignerOf(input.protocol) = "signCeloTx" ->
                      /\ builderCalls' = Append(builderCalls,
                           [signer |-> "signCeloTx", rawTransaction |-> response.rawTransaction,
                            privateKey |-> input.wallet.privateKey])
                      /\ pc' = "awaitSigner"
                      /\ promise' = [promise EXCEPT !["createPool"] = "fulfilled"]
                      /\ UNCHANGED <<sent, result>>
                 [] SignerOf(input.protocol) = "signEthereumTx" ->
                      /\ builderCalls' = Append(builderCalls,
                           [signer |-> "signEthereumTx", rawTransaction |-> response.rawTransaction,
                            privateKey |-> input.wallet.privateKey])
                      /\ Broadcast
                      /\ promise' = [promise EXCEPT !["createPool"] = "fulfilled",
                                                    !["sendTransaction"] = "pending"]
                      /\ UNCHANGED result
                 [] OTHER ->
                      /\ Throw(Rejected("InvalidException: Unsupported protocol"))
                      /\ promise' = [promise EXCEPT !["createPool"] = "fulfilled"]
                      /\ UNCHANGED <<sent, builderCalls>>
  /\ UNCHANGED <<op, input, quote>>
  /\ UNCHANGED hathorVars
  /\ UNCHANGED cardanoVars
  /\ UNCHANGED controllerVars

\* signCeloTx returns: lines 47, 56-61
signCeloTxReturns ==
  /\ op = "createPool"
  /\ pc = "awaitSigner"
  /\ Broadcast
  /\ promise' = [promise EXCEPT !["sendTransaction"] = "pending"]
  /\ UNCHANGED <<op, input, info, quote, builderCalls, result>>
  /\ UNCHANGED hathorVars
  /\ UNCHANGED cardanoVars
  /\ UNCHANGED controllerVars

\* signCeloTx throws
signCeloTxThrows ==
  /\ op = "createPool"
  /\ pc = "awaitSigner"
  /\ Throw(Rejected("SignerError"))
  /\ UNCHANGED <<op, input, sent, promise, info, quote, builderCalls>>
  /\ UNCHANGED hathorVars
  /\ UNCHANGED cardanoVars
  /\ UNCHANGED controllerVars

\* the broadcast answers: lines 56-62
sendTransactionFulfilled ==
  /\ op = "createPool"
  /\ pc = "awaitSend"
  /\ \E hash \in 1..MaxNonce :
       result' = CreatePoolResult(Some([hash |-> hash]), info[1].pool)
  /\ pc' = "done"
  /\ promise' = [promise EXCEPT !["sendTransaction"] = "fulfilled"]
  /\ UNCHANGED <<op, input, sent, info, quote, builderCalls>>
  /\ UNCHANGED hathorVars
  /\ UNCHANGED cardanoVars
  /\ UNCHANGED controllerVars

\* the awaited request of createPool fails
uniswapRequestRejected ==
  /\ op = "createPool"
  /\ pc \in {"awaitCreatePool", "awaitSend"}
  /\ promise' = [promise EXCEPT ![IF pc = "awaitSend" THEN "sendTransaction"
                                  ELSE "createPool"] = "rejected"]
  /\ Throw(handleRequestError)
  /\ UNCHANGED <<op, input, sent, info, quote, builderCalls>>
  /\ UNCHANGED hathorVars
  /\ UNCHANGED cardanoVars
  /\ UNCHANGED controllerVars

NextUniswap ==
  \/ createPool
  \/ createPoolFulfilled
  \/ signCeloTxReturns
  \/ signCeloTxThrows
  \/ sendTransactionFulfilled
  \/ uniswapRequestRejected

SpecUniswap == InitUniswap /\ [][NextUniswap]_vars

(* ------------------------------- Solana -------------------------------- *)
\* the Solana constructors that fetch the latest block before they build
SolanaOps == {"createSolanaTransferTransaction", "createSolanaTokenBurnTransaction",
              "createSolanaTokenMintTransaction", "createSolanaCustomProgramInteraction",
              "solanaUpdateAuctionAuthorityTransaction"}

\* an intent is well formed or not; what it asks for plays no part in the
\* orchestration
SolanaInputs == [wellFormed : BOOLEAN, token : {TokenUid, OtherUid}, amount : 1..MaxAmount]

BlockHashes == {"blockhashA", "blockhashB"}

\* the validate... call on the first line of a constructor; the validator
\* of solanaUpdateAuctionAuthorityTransaction is commented out (line 1331)
Validates(o) == o # "solanaUpdateAuctionAuthorityTransaction"

\* services/validations: a malformed intent is rejected
validate(in) == in.wellFormed

\* the local builder each constructor awaits
SolanaBuilder(o) ==
  CASE o = "createSolanaTransferTransaction" -> "buildSolanaTransferTransaction"
    [] o = "createSolanaTokenBurnTransaction" -> "buildSolanaTokenBurnTransaction"
    [] o = "createSolanaTokenMintTransaction" -> "mintSolanaToken"
    [] o = "createSolanaCustomProgramInteraction" -> "buildSolanaCustomProgramInteraction"
    [] o = "solanaUpdateAuctionAuthorityTransaction" -> "updateAuctionAuthority"

\* the type each constructor puts on its envelope: lines 1192, 1215, 1238, 1321
SolanaType(o) ==
  CASE o = "createSolanaTransferTransaction" -> "TRANSFER"
    [] o = "createSolanaTokenBurnTransaction" -> "SOLANA_TOKEN_BURN"
    [] o = "createSolanaTokenMintTransaction" -> "SOLANA_TOKEN_BURN"
    [] o = "createSolanaCustomProgramInteraction" -> "CALL_CONTRACT_METHOD"

\* new TransactionResponse({ hash })
TransactionResponse(hash) == [status |-> "fulfilled", hash |-> hash]

\* apiRequest(`${requests.getBlock.url}/latest?protocol=${protocol}`)
GetBlock(protocol) == [req |-> "getBlock", protocol |-> protocol]

InitSolana ==
  /\ op \in SolanaOps
  /\ input \in SolanaInputs
  /\ pc = "start"
  /\ sent = <<>>
  /\ promise = NoPromises
  /\ info = None
  /\ quote = None
  /\ builderCalls = <<>>
  /\ result = Pending
  /\ discovered = <<>> /\ utxos = <<>> /\ i = 0 /\ inputs = <<>> /\ inputSum = 0
  /\ outputs = <<>> /\ tokens = <<>> /\ txs = <<>>
  /\ keyAddressMapper = <<>> /\ inputList = <<>> /\ waiting = {} /\ payload = <<>>
  /\ config = DefaultConfig /\ calls = <<>>

\* e.g. lines 1179-1188: the intent is validated where the constructor
\* calls a validator, then the latest block is requested
solanaCall ==
  /\ op \in SolanaOps
  /\ pc = "start"
  /\ IF Validates(op) /\ ~validate(input)
     THEN /\ Throw(Rejected("ValidationError"))
          /\ UNCHANGED <<sent, promise>>
     ELSE /\ sent' = Append(sent, GetBlock("SOLANA"))
          /\ promise' = [promise EXCEPT !["getBlock"] = "pending"]
          /\ pc' = "awaitBlock"
          /\ UNCHANGED result
  /\ UNCHANGED <<op, input, info, quote, builderCalls>>
  /\ UNCHANGED hathorVars
  /\ UNCHANGED cardanoVars
  /\ UNCHANGED controllerVars

\* the latest block arrives and the builder is awaited, e.g. lines 1188-1190
getBlockFulfilled ==
  /\ op \in SolanaOps
  /\ pc = "awaitBlock"
  /\ \E latestBlock \in BlockHashes :
       InvokeBuilder([builder |-> SolanaBuilder(op), latestBlock |-> latestBlock,
                      token |-> input.token, amount |-> input.amount,
                      protocol |-> "SOLANA"])
  /\ promise' = [promise EXCEPT !["getBlock"] = "fulfilled"]
  /\ UNCHANGED <<op, input, sent, info, quote>>
  /\ UNCHANGED hathorVars
  /\ UNCHANGED cardanoVars
  /\ UNCHANGED controllerVars

\* the request fails; these constructors have no catch
getBlockRejected ==
  /\ op \in SolanaOps
  /\ pc = "awaitBlock"
  /\ promise' = [promise EXCEPT !["getBlock"] = "rejected"]
  /\ Throw(Rejected("RequestError"))
  /\ UNCHANGED <<op, input, sent, info, quote, builderCalls>>
  /\ UNCHANGED hathorVars
  /\ UNCHANGED cardanoVars
  /\ UNCHANGED controllerVars

\* the builder returns: the envelope of the constructor, or the
\* TransactionResponse of line 1344
solanaBuilderReturns ==
  /\ op \in SolanaOps
  /\ pc = "awaitBuilder"
  /\ pc' = "done"
  /\ result' = IF op = "solanaUpdateAuctionAuthorityTransaction"
               THEN TransactionResponse("txHash")
               ELSE SignedTransaction("SOLANA", SolanaType(op))
  /\ UNCHANGED <<op, input, sent, promise, info, quote, builderCalls>>
  /\ UNCHANGED hathorVars
  /\ UNCHANGED cardanoVars
  /\ UNCHANGED controllerVars

NextSolana ==
  \/ solanaCall
  \/ getBlockFulfilled
  \/ getBlockRejected
  \/ solanaBuilderReturns
  \/ builderThrows

SpecSolana == InitSolana /\ [][NextSolana]_vars

(* ----------------- two calls in flight on one controller ------------- *)
CallIds == {1, 2}

\* the constructors the two calls are drawn from: lines 454 and 488
ConcurrentOps == {"createEthereumTransferTransaction", "createBscTransferTransaction"}

\* the intents the two calls are drawn from: no override, or a gas override
ConcurrentInputs == [fee : {None, Some([gas |-> Some(MaxFee), gasPrice |-> None])}]

\* the locals of a call that has not run yet
NewCall(o, in) ==
  [op |-> o, input |-> in, pc |-> "start", sent |-> <<>>, info |-> None,
   quote |-> None, builderCalls |-> <<>>, result |-> Pending]

InitConcurrent ==
  /\ config \in Configs
  /\ calls \in [CallIds -> {NewCall(o, in) : o \in ConcurrentOps, in \in ConcurrentInputs}]
  /\ op = "concurrent"
  /\ input = <<>>
  /\ pc = "concurrent"
  /\ sent = <<>>
  /\ promise = NoPromises
  /\ info = None
  /\ quote = None
  /\ builderCalls = <<>>
  /\ result = Pending
  /\ discovered = <<>> /\ utxos = <<>> /\ i = 0 /\ inputs = <<>> /\ inputSum = 0
  /\ outputs = <<>> /\ tokens = <<>> /\ txs = <<>>
  /\ keyAddressMapper = <<>> /\ inputList = <<>> /\ waiting = {} /\ payload = <<>>

\* what the destructuring of line 685 binds in call c once Promise.all has
\* fulfilled, had the controller kept the first answer for later calls
ResolvedKept(cs, c) ==
  IF cs[1].info # None /\ cs[1].quote # None
  THEN [info |-> cs[1].info[1], networkFee |-> cs[1].quote[1]]
  ELSE [info |-> cs[c].info[1], networkFee |-> cs[c].quote[1]]

\* line 685: const [info, networkFee] = await Promise.all([...]) binds the
\* answers to the two requests of this very call
Resolved(cs, c) == [info |-> cs[c].info[1], networkFee |-> cs[c].quote[1]]

\* lines 706-708 and 470-480: the override is merged and the builder is
\* invoked; testnet falls back on this.config.environment
InvokeTransferBuilder(cs, c) ==
  LET r == Resolved(cs, c)
  IN [cs EXCEPT
        ![c].builderCalls = <<[fee |-> MergeFee(cs[c].input.fee, r.networkFee),
                               nonce |-> r.info.nonce,
                               testnet |-> config.environment = "development",
                               protocol |-> ProtocolOf(cs[c].op, cs[c].input)]>>,
        ![c].pc = "awaitBuilder"]

\* call c runs up to its await on Promise.all: both requests are issued
getFeeInfoCallOf(c) ==
  /\ calls # <<>>
  /\ calls[c].pc = "start"
  /\ calls' = [calls EXCEPT
                 ![c].sent = <<Request("getWalletInfo"), FeeRequest(calls[c].op, calls[c].input)>>,
                 ![c].pc = "awaitFeeInfo"]
  /\ UNCHANGED <<config, op, input, pc, sent, promise, info, quote, builderCalls, result>>
  /\ UNCHANGED hathorVars
  /\ UNCHANGED cardanoVars

\* the chain state of call c arrives
getWalletInfoFulfilledOf(c) ==
  /\ calls # <<>>
  /\ calls[c].pc = "awaitFeeInfo"
  /\ calls[c].info = None
  /\ \E w \in WalletInfos(calls[c].op) :
       LET cs == [calls EXCEPT ![c].info = Some(w)]
       IN calls' = IF cs[c].quote # None THEN InvokeTransferBuilder(cs, c) ELSE cs
  /\ UNCHANGED <<config, op, input, pc, sent, promise, info, quote, builderCalls, result>>
  /\ UNCHANGED hathorVars
  /\ UNCHANGED cardanoVars

\* the fee quote of call c arrives
getFeeFulfilledOf(c) ==
  /\ calls # <<>>
  /\ calls[c].pc = "awaitFeeInfo"
  /\ calls[c].quote = None
  /\ \E f \in FeeQuotes :
       LET cs == [calls EXCEPT ![c].quote = Some(f)]
       IN calls' = IF cs[c].info # None THEN InvokeTransferBuilder(cs, c) ELSE cs
  /\ UNCHANGED <<config, op, input, pc, sent, promise, info, quote, builderCalls, result>>
  /\ UNCHANGED hathorVars
  /\ UNCHANGED cardanoVars

\* one of the two requests of call c is rejected: Promise.all rejects and
\* the call throws
feeInfoRejectedOf(c) ==
  /\ calls # <<>>
  /\ calls[c].pc = "awaitFeeInfo"
  /\ calls' = [calls EXCEPT ![c].pc = "failed", ![c].result = Rejected("RequestError")]
  /\ UNCHANGED <<config, op, input, pc, sent, promise, info, quote, builderCalls, result>>
  /\ UNCHANGED hathorVars
  /\ UNCHANGED cardanoVars

\* lines 481 / 516: the builder of call c returns and the envelope is made
builderReturnsOf(c) ==
  /\ calls # <<>>
  /\ calls[c].pc = "awaitBuilder"
  /\ calls' = [calls EXCEPT
                 ![c].pc = "done",
                 ![c].result = SignedTransaction(calls[c].builderCalls[1].protocol,
                                                 TypeOf(calls[c].op, calls[c].input))]
  /\ UNCHANGED <<config, op, input, pc, sent, promise, info, quote, builderCalls, result>>
  /\ UNCHANGED hathorVars
  /\ UNCHANGED cardanoVars

NextConcurrent ==
  \/ \E c \in CallIds : getFeeInfoCallOf(c)
  \/ \E c \in CallIds : getWalletInfoFulfilledOf(c)
  \/ \E c \in CallIds : getFeeFulfilledOf(c)
  \/ \E c \in CallIds : feeInfoRejectedOf(c)
  \/ \E c \in CallIds : builderReturnsOf(c)

SpecConcurrent == InitConcurrent /\ [][NextConcurrent]_vars

(* ------------------------- the whole controller ------------------------ *)
Init == InitFee \/ InitToken \/ InitTransfer \/ InitTokenUTXO \/ InitCardano
          \/ InitUniswap \/ InitSolana \/ InitConcurrent

Next == NextFee \/ NextToken \/ NextTransfer \/ NextTokenUTXO \/ NextCardano
          \/ NextUniswap \/ NextSolana \/ NextConcurrent

Spec == Init /\ [][Next]_vars

(* ---------------- properties of the Hathor transfer constructors ------- *)
\* an output has been resolved (looked up) or the builder was reached
SelectionStarted == Lookups # <<>> \/ BuilderInvoked

NoDuplicates(seq) == \A a, b \in 1..Len(seq) : a # b => seq[a] # seq[b]

IsNativeAlias(token) == token = None \/ token = Some("HTR")

\* C10: in both Hathor transfer constructors, before any output is selected
\* or resolved, every requested output whose token is null, undefined or
\* 'HTR' has token '00' and every other output keeps its token; the token
\* list holds each distinct token exactly once, with '00' for 'HTR' / null;
\* the builder receives these outputs and this token list.
C10_NativeTokenNormalised ==
  (op \in HathorTransferOps /\ SelectionStarted) =>
    /\ Len(outputs) = Len(input.outputs)
    /\ \A k \in 1..Len(outputs) :
         outputs[k].token = IF IsNativeAlias(input.outputs[k].token)
                            THEN Some("00") ELSE input.outputs[k].token
    /\ NoDuplicates(tokens)
    /\ Range(tokens) = {IF IsNativeAlias(o.token) THEN "00" ELSE o.token[1] :
                          o \in Range(input.outputs)}
    /\ "HTR" \notin Range(tokens)
    /\ BuilderInvoked =>
         builderCalls[1].outputs = outputs /\ builderCalls[1].tokens = tokens

\* a null token and the symbol 'HTR' in one request: both outputs carry
\* '00' and the token list holds '00' once
C10_Witness ==
  /\ op \in HathorTransferOps
  /\ input.outputs = <<[token |-> None], [token |-> Some("HTR")]>>
  /\ BuilderInvoked
  /\ builderCalls[1].outputs = <<[token |-> Some("00")], [token |-> Some("00")]>>
  /\ builderCalls[1].tokens = <<"00">>

\* the discovered outputs that carry a target token and are no authority
\* output (authority marker 129)
Eligible ==
  {u \in Range(discovered) : u.token \in Range(tokens) /\ u.token_data # 129}

\* C11: in createHathorTransferTransactionFromWallet a discovered output is
\* an input if and only if its token is a target token and it is not an
\* authority output; an output of another token is never selected and its
\* transaction is never looked up.
C11_InputsAreTheEligibleOutputs ==
  op = "createHathorTransferTransactionFromWallet" =>
    /\ Range(inputs) \subseteq Eligible
    /\ \A k \in 1..Len(Lookups) : discovered[Lookups[k].hash].token \in Range(tokens)
    /\ BuilderInvoked => Range(builderCalls[1].inputs) = Eligible

\* an ordinary output of the target token, an authority output of it and
\* an output of another token: only the first becomes an input, the third
\* is not looked up
C11_Witness ==
  /\ op = "createHathorTransferTransactionFromWallet"
  /\ BuilderInvoked
  /\ tokens = <<TokenUid>>
  /\ Len(discovered) = 3
  /\ discovered[1].token = TokenUid /\ discovered[1].token_data = 1
  /\ discovered[2].token = TokenUid /\ discovered[2].token_data = 129
  /\ discovered[3].token = OtherUid
  /\ builderCalls[1].inputs = <<discovered[1]>>
  /\ Len(Lookups) = 2

\* an explicit input names an index that its resolved transaction does not have
SomeIndexMissing == \E k \in 1..Len(txs) : txs[k] = None

\* C12: in a constructor that takes explicit inputs, an input whose index is
\* not in the output list of its resolved transaction makes the call fail
\* with the invalid-input error (GenericException 'InvalidParams', as line
\* 573 raises it for Bitcoin), and the builder is never invoked.
C12_MissingIndexIsInvalidInput ==
  (op = "createHathorTransferTransactionFromUTXO" /\ SomeIndexMissing) =>
    /\ result = Rejected("InvalidParams")
    /\ ~BuilderInvoked

(* ------------- properties of the contract-call constructors ------------ *)
\* C14: a contract call, contract deployment or token deployment for a
\* protocol outside CELO, ETHEREUM, BSC and AVAXCCHAIN fails with the
\* unsupported-protocol error before any remote request is issued.
C14_UnsupportedFailsBeforeNetwork ==
  (op \in ContractOps /\ ProtocolOf(op, input) \notin BuilderProtocols) =>
    /\ sent = <<>>
    /\ ~BuilderInvoked
    /\ pc = "failed" => result = Rejected("InvalidTypeException")

(* ------------------- properties of the Celo transfer ------------------- *)
\* the fee-quote request of the call
FeeQuoteShape == sent[2].data

HasMemo == input.memo # None /\ input.memo[1] # ""

FromWallet == op = "createCardanoTransferTransactionFromWallet"

FromUTXO == op = "createCardanoTransferTransactionFromUTXO"

\* the handshake requests of the call, as they were issued
RequestsOf(name) == SelectSeq(sent, LAMBDA r : r.req = name)

PreprocessRequest == RequestsOf("preprocess")[1]

PayloadRequest == RequestsOf("getPayload")[1]

CombineRequest == RequestsOf("combineSignatures")[1]

\* the entries of inputList that are the output input k names
MatchesOf(k) ==
  {j \in 1..Len(inputList) :
     /\ inputList[j].address = input.inputs[k].address
     /\ Matches(inputList[j], input.inputs[k])}

\* the supplied inputs that name the same output as input k
SameAs(k) ==
  {j \in 1..Len(input.inputs) :
     /\ input.inputs[j].address = input.inputs[k].address
     /\ input.inputs[j].txHash = input.inputs[k].txHash
     /\ input.inputs[j].index = input.inputs[k].index}

\* every getUTXOs has answered and none failed
AllAnswered == pc # "start" /\ waiting = {} /\ promise["getUTXOs"] = "fulfilled"

SomeInputUnmatched ==
  \E k \in 1..Len(input.inputs) : Cardinality(MatchesOf(k)) < Cardinality(SameAs(k))

\* C13: createCardanoTransferTransactionFromUTXO issues preprocess (and so
\* any later request) only if every supplied input was matched to a
\* discovered output of its address with the same hash and index, each
\* exactly once; if some input has no match the call fails with the
\* invalid-input error and no preprocess, payload or combine request is issued.
C13_ProceedsOnlyIfEveryInputMatched ==
  FromUTXO =>
    /\ Requested("preprocess") =>
         /\ Len(inputList) = Len(input.inputs)
         /\ \A k \in 1..Len(input.inputs) :
              Cardinality(MatchesOf(k)) = Cardinality(SameAs(k))
    /\ (AllAnswered /\ SomeInputUnmatched) =>
         /\ result = Rejected("Error: One or more inputs are invalid")
         /\ pc = "failed"
         /\ ~Requested("preprocess") /\ ~Requested("getPayload")
         /\ ~Requested("combineSignatures")

\* two inputs were supplied, one was matched, the other was not: the call
\* has failed and nothing was sent to preprocess
C13_Witness ==
  /\ FromUTXO
  /\ Len(input.inputs) = 2
  /\ AllAnswered
  /\ Len(inputList) = 1
  /\ pc = "failed"
  /\ ~Requested("preprocess")

\* the keys the intent associates with an address
KeysOf(address) ==
  IF FromWallet
  THEN IF input.wallet.address = address THEN {input.wallet.privateKey} ELSE {}
  ELSE {input.inputs[k].privateKey :
          k \in {j \in 1..Len(input.inputs) : input.inputs[j].address = address}}

\* C16: the signatures submitted to combine are as many as the payloads of
\* the payload response, and the k-th is the signature of the k-th payload,
\* produced with the private key of the address the payload names, the
\* declared public key being the public part of that same key.
C16_OneSignaturePerPayloadWithItsKey ==
  (op \in CardanoOps /\ Requested("combineSignatures")) =>
    LET payloads == payload[1].payloads
        signatures == CombineRequest.signatures
    IN /\ Len(signatures) = Len(payloads)
       /\ \A k \in 1..Len(signatures) :
            \E key \in KeysOf(payloads[k].account_identifier.address) :
              /\ signatures[k].signing_payload = payloads[k]
              /\ signatures[k].hex_bytes = [message |-> payloads[k].hex_bytes,
                                            key |-> key.secret]
              /\ signatures[k].public_key.hex_bytes = key.public

\* explicit inputs at two addresses with two keys, one payload for each
\* address: the signatures were submitted
C16_Witness ==
  /\ FromUTXO
  /\ Requested("combineSignatures")
  /\ Len(input.inputs) = 2
  /\ input.inputs[1].address # input.inputs[2].address
  /\ input.inputs[1].privateKey # input.inputs[2].privateKey
  /\ Len(payload[1].payloads) = 2
  /\ payload[1].payloads[1].account_identifier.address = input.inputs[2].address
  /\ payload[1].payloads[2].account_identifier.address = input.inputs[1].address

\* a payload of the response names an address no key is held for
PayloadWithoutKey ==
  /\ payload # None
  /\ KeyMissing(payload[1].payloads, keyAddressMapper)

\* C17: when a signing payload names an address for which no key is held,
\* the call fails with the ownership-mismatch (signing) error, and the
\* combine request is never issued.
C17_MissingKeyIsSigningError ==
  (op \in CardanoOps /\ PayloadWithoutKey) =>
    /\ result = Rejected("SigningError")
    /\ ~Requested("combineSignatures")

\* the handshake requests, in the order they were issued
Handshake ==
  SelectSeq(sent, LAMBDA r : r.req \in {"preprocess", "getMetadata", "getPayload",
                                        "combineSignatures"})

HandshakeOrder == <<"preprocess", "getMetadata", "getPayload", "combineSignatures">>

\* C18: the remote calls of a Cardano construction are issued in the order
\* preprocess, metadata, payloads, combine, each only after the response of
\* the one before arrived, and combine is issued only with a signature for
\* every signing payload, never with a partial list.
C18_HandshakeInOrder ==
  op \in CardanoOps =>
    /\ Len(Handshake) <= 4
    /\ \A k \in 1..Len(Handshake) : Handshake[k].req = HandshakeOrder[k]
    /\ Requested("preprocess") => promise["getUTXOs"] = "fulfilled"
    /\ Requested("getMetadata") => promise["preprocess"] = "fulfilled"
    /\ Requested("getPayload") => promise["getMetadata"] = "fulfilled"
    /\ Requested("combineSignatures") =>
         /\ promise["getPayload"] = "fulfilled"
         /\ \A k \in 1..Len(payload[1].payloads) :
              /\ k <= Len(CombineRequest.signatures)
              /\ CombineRequest.signatures[k].signing_payload = payload[1].payloads[k]

\* the whole handshake ran and two payloads were signed
C18_Witness ==
  /\ FromWallet
  /\ pc = "done"
  /\ Len(Handshake) = 4
  /\ Len(payload[1].payloads) = 2
  /\ Len(CombineRequest.signatures) = 2

\* C19: in every Cardano constructor the operations of the payload request
\* are built again with the fee the metadata response suggests; the
\* fee-less draft sent to preprocess is never what gets signed.
C19_PayloadOperationsCarryTheFee ==
  (op \in CardanoOps /\ Requested("getPayload")) =>
    /\ PayloadRequest.operations # PreprocessRequest.operations
    /\ PayloadRequest.operations.fee = Some(quote[1].suggested_fee)

\* the matched outputs in the order of the supplied inputs
InputsAsSupplied ==
  [k \in 1..Len(input.inputs) |->
     [txHash |-> input.inputs[k].txHash,
      index |-> CHOOSE n \in {0, 1} : ToString(n) = input.inputs[k].index,
      address |-> input.inputs[k].address]]

\* C20: the same intent against the same remote responses gives the
\* operation builder the same arguments, in the same order, under every
\* scheduling of the responses: from explicit inputs the operations are
\* built from the matched outputs in the order of the supplied inputs,
\* whichever getUTXOs answers first.
C20_SameArgumentsUnderEveryScheduling ==
  (FromUTXO /\ Requested("preprocess")) =>
    PreprocessRequest.operations =
      buildOperationFromInputs(InputsAsSupplied, input.outputs).operations

\* no two positions of a list of inputs name the same unspent output
NoOutputTwice(list) ==
  \A a, b \in 1..Len(list) :
    a # b => ~(list[a].txHash = list[b].txHash /\ list[a].index = list[b].index)

\* C22: the inputs handed to the operation builder by the explicit-input
\* Cardano constructor never name the same unspent output (transaction hash
\* and output index) twice, whatever input list the caller supplied.
C22_NoOutputReferencedTwice ==
  (FromUTXO /\ Requested("preprocess")) =>
    NoOutputTwice(PreprocessRequest.operations.inputs)

\* C30: in createCardanoTransferTransactionFromUTXO the resolved input list
\* handed to the operation builder is in the order of the supplied inputs
\* for every completion order of the concurrent lookups, and the key map
\* holds a key for every supplied address once the lookups were issued.
C30_ResolvedListInSuppliedOrder ==
  FromUTXO =>
    /\ pc # "start" =>
         \A k \in 1..Len(input.inputs) : keyAddressMapper[input.inputs[k].address] # None
    /\ Requested("preprocess") => inputList = InputsAsSupplied

\* the private keys of the model, as they could appear in a request
KeyMaterial == {key.secret : key \in PrivateKeys}

\* a request holds no private key: neither a field named after one nor a
\* key among its values; the signatures of the combine request are the
\* locally produced part and only their declared public key is looked at
KeyFree(r) ==
  CASE r.req = "getUTXOs" -> r.address \in Addresses
    [] r.req \in {"preprocess", "getPayload"} ->
         /\ \A j \in 1..Len(r.operations.inputs) :
              DOMAIN r.operations.inputs[j] \subseteq {"txHash", "index", "address"}
         /\ FromWallet => r.operations.address \in Addresses
         /\ r.operations.outputs = input.outputs
    [] r.req = "combineSignatures" ->
         /\ r.unsigned_transaction = payload[1].unsigned_transaction
         /\ \A k \in 1..Len(r.signatures) :
              /\ r.signatures[k].signing_payload = payload[1].payloads[k]
              /\ r.signatures[k].public_key.hex_bytes \notin KeyMaterial
    [] OTHER -> DOMAIN r = {"req"}

SignedLocally ==
  /\ payload # None
  /\ payload[1].payloads # <<>>
  /\ ~KeyMissing(payload[1].payloads, keyAddressMapper)

\* the requests issued after the payload request, that is, after the
\* payloads were signed
AfterSigning ==
  LET at == CHOOSE k \in 1..Len(sent) : sent[k].req = "getPayload"
  IN SubSeq(sent, at + 1, Len(sent))

C25_IntentNotModified ==
  (op = "createHathorTransferTransactionFromUTXO" /\ pc # "start") =>
    /\ outputs = input.outputs
    /\ inputs = input.inputs

(* ------------- properties of the token operation from UTXOs ------------ *)
\* the outputs the supplied inputs name
ResolvedOutputs == [k \in 1..Len(txs) |-> txs[k][1]]

\* C29: the inputSum createHathorTokenTransactionFromUTXO hands to the
\* builder counts one asset: for a melt, the values of the supplied ordinary
\* outputs of the token being melted (native-asset and authority outputs
\* add nothing); for any other operation, the values of the supplied
\* native-asset outputs only.
C29_InputSumCountsOneAsset ==
  (op = "createHathorTokenTransactionFromUTXO" /\ BuilderInvoked) =>
    builderCalls[1].inputSum =
      IF input.type = "HATHOR_TOKEN_MELT"
      THEN SumValues(SelectSeq(ResolvedOutputs,
                               LAMBDA o : o.token = input.tokenUid /\ o.token_data = 1))
      ELSE SumValues(SelectSeq(ResolvedOutputs, LAMBDA o : o.token_data = 0))

(* ------------------- properties of Uniswap createPool ------------------ *)
Broadcasts == RequestsOf("sendTransaction")

PoolExisted == info # None /\ info[1].initialized

\* C27: when the remote reports that the pool existed already, createPool
\* signs nothing, broadcasts nothing and returns transaction null with the
\* pool; otherwise at most one transaction is signed and broadcast, exactly
\* one when the call returns, and for a protocol outside CELO, ETHEREUM and
\* POLYGON the call fails without signing or broadcasting.
C27_CreatePoolSignsOnlyNewPools ==
  op = "createPool" =>
    /\ PoolExisted =>
         /\ builderCalls = <<>> /\ Broadcasts = <<>>
         /\ pc = "done"
         /\ result = CreatePoolResult(None, info[1].pool)
    /\ Len(builderCalls) <= 1 /\ Len(Broadcasts) <= 1
    /\ Broadcasts # <<>> =>
         /\ Len(builderCalls) = 1
         /\ Broadcasts[1].protocol = input.protocol
         /\ Broadcasts[1].body.type = "CREATE_POOL"
    /\ (pc = "done" /\ ~PoolExisted) =>
         /\ Len(builderCalls) = 1 /\ Len(Broadcasts) = 1
         /\ result.transaction # None /\ result.pool = info[1].pool
    /\ (info # None /\ ~PoolExisted /\ input.protocol \notin {"CELO", "ETHEREUM", "POLYGON"}) =>
         /\ pc = "failed"
         /\ builderCalls = <<>> /\ Broadcasts = <<>>

\* a new pool on CELO: one signature, one broadcast, the transaction is returned
C27_Witness ==
  /\ op = "createPool"
  /\ input.protocol = "CELO"
  /\ ~PoolExisted
  /\ pc = "done"
  /\ Len(builderCalls) = 1 /\ Len(Broadcasts) = 1
  /\ result.transaction # None

(* ------------------ properties of the Solana constructors -------------- *)
\* C21: every construction entry point validates its intent before it
\* issues a remote request: a malformed intent makes the call fail with a
\* validation error and no request is ever sent.
C21_ValidatedBeforeAnyRequest ==
  (op \in SolanaOps /\ ~input.wellFormed) =>
    /\ sent = <<>>
    /\ pc # "start" => result = Rejected("ValidationError")

\* C28: the type tag of an envelope tells the operation that built it: the
\* envelope of createSolanaTokenMintTransaction carries another type than
\* the envelope of createSolanaTokenBurnTransaction, and the protocol tag of
\* every envelope is the protocol of the call's remote requests.
C28_TypeTagTellsTheOperation ==
  (op \in SolanaOps /\ pc = "done" /\ op # "solanaUpdateAuctionAuthorityTransaction") =>
    /\ result.protocol = sent[1].protocol
    /\ op = "createSolanaTokenMintTransaction" =>
         result.type # SolanaType("createSolanaTokenBurnTransaction")

(* --------------- properties of two calls on one controller ------------- *)
\* what call c hands to its builder when it runs alone: its own intent, the
\* answers to its own two requests, and the configuration
AloneArgs(c) ==
  [fee |-> MergeFee(calls[c].input.fee, calls[c].quote[1]),
   nonce |-> calls[c].info[1].nonce,
   testnet |-> config.environment = "development",
   protocol |-> ProtocolOf(calls[c].op, calls[c].input)]

CallIsolated(c) ==
  /\ calls[c].pc # "start" =>
       calls[c].sent = <<Request("getWalletInfo"), FeeRequest(calls[c].op, calls[c].input)>>
  /\ calls[c].builderCalls # <<>> => calls[c].builderCalls = <<AloneArgs(c)>>
  /\ calls[c].pc = "done" =>
       calls[c].result = SignedTransaction(ProtocolOf(calls[c].op, calls[c].input), "TRANSFER")

\* C26: of two calls in flight on the same controller, each hands its
\* builder the arguments, and returns the envelope, it would have produced
\* alone: each call issues its own two requests, builds from the answers to
\* them, and no step of either call writes the controller's state.
C26_ConcurrentCallsAreIsolated ==
  /\ [](calls # <<>> => \A c \in CallIds : CallIsolated(c))
  /\ [][config' = config]_vars

\* call 2 has reached its builder while call 1 is suspended with another
\* chain state already delivered to it
C26_Witness ==
  /\ calls # <<>>
  /\ calls[1].pc = "awaitFeeInfo"
  /\ calls[1].info # None
  /\ calls[2].builderCalls # <<>>
  /\ calls[2].info # calls[1].info

====
